---- MODULE Spec2Model ----
(***************************************************************************)
(* TreeLine field formats, node formats and tree nodes                     *)
(* (fieldformat.py, nodeformat.py, treenode.py) as state machines.         *)
(*                                                                         *)
(* A Python str is a sequence of one-character strings.  An exception is   *)
(* an outcome: every call yields a record whose exc field is "" when the   *)
(* call returned and the exception's class name when it raised.            *)
(***************************************************************************)
EXTENDS Integers, Sequences, FiniteSets, TLC

VARIABLES
    objs,         \* the Field objects ever created for the node format, by id
    fieldDict,    \* NodeFormat.fieldDict: ordered sequence of <<name, id>>
    titleLine,    \* NodeFormat.titleLine: sequence of segments
    outputLines,  \* NodeFormat.outputLines: sequence of sequences of segments
    last,         \* the last NodeFormat call, its outcome and, for
                  \* extractTitleData, the data mapping it was given
    fld,          \* a Field object on its own (field specification)
    conv,         \* the last Field call and its outcome; in the tree
                  \* specification, the persisted node records being loaded
    opts,         \* NodeFormat.spaceBetween, formatHtml, childType, iconName
    nodes         \* the TreeNode objects of the format: their data mappings;
                  \* in the tree specification, the whole TreeNode objects

vars == <<objs, fieldDict, titleLine, outputLines, last, fld, conv, opts, nodes>>

nfVars == <<objs, fieldDict, titleLine, outputLines, last>>

fVars == <<fld, conv>>

\* what the node format and field specifications leave as constructed
restVars == <<opts, nodes>>

----------------------------------------------------------------------------
(* Bounds *)

\* longest enumerated editor text over the small alphabet
MaxTextLen == 3

\* Field objects created for one node format
MaxObjs == 4

\* longest enumerated title string over the small alphabet
MaxTitleLen == 1

\* raw template lines are built from at most this many pieces
MaxParts == 2

----------------------------------------------------------------------------
(* Python str operations *)

NUL == "NUL"

Whitespace == {" ", "\t", "\n"}

IsPrefix(p, s) == Len(p) <= Len(s) /\ SubSeq(s, 1, Len(p)) = p

Drop(s, n) == SubSeq(s, n + 1, Len(s))

\* str.replace(old, new) for a non-empty old: leftmost, non-overlapping
RECURSIVE Replace(_, _, _)
Replace(s, old, new) ==
    IF s = <<>> THEN <<>>
    ELSE IF IsPrefix(old, s) THEN new \o Replace(Drop(s, Len(old)), old, new)
    ELSE <<Head(s)>> \o Replace(Tail(s), old, new)

\* str.split(sep) for a one-character sep: a list of Len+1 pieces
RECURSIVE SplitOn(_, _)
SplitOn(s, c) ==
    IF \A i \in 1..Len(s) : s[i] # c THEN <<s>>
    ELSE LET i == CHOOSE j \in 1..Len(s) :
                      s[j] = c /\ \A k \in 1..(j - 1) : s[k] # c
         IN  <<SubSeq(s, 1, i - 1)>> \o SplitOn(Drop(s, i), c)

\* str.split(sep, 1)[0] : the text before the first occurrence of sep
RECURSIVE BeforeFirst(_, _)
BeforeFirst(s, sep) ==
    IF s = <<>> \/ IsPrefix(sep, s) THEN <<>>
    ELSE <<Head(s)>> \o BeforeFirst(Tail(s), sep)

RECURSIVE LStrip(_)
LStrip(s) == IF s # <<>> /\ Head(s) \in Whitespace THEN LStrip(Tail(s)) ELSE s

RECURSIVE RStrip(_)
RStrip(s) ==
    IF s # <<>> /\ s[Len(s)] \in Whitespace
    THEN RStrip(SubSeq(s, 1, Len(s) - 1)) ELSE s

\* str.strip()
Strip(s) == RStrip(LStrip(s))

\* the first run of non-whitespace characters of s
RECURSIVE WordAt(_)
WordAt(s) ==
    IF s = <<>> \/ Head(s) \in Whitespace THEN <<>>
    ELSE <<Head(s)>> \o WordAt(Tail(s))

\* str.split() without argument: the runs of non-whitespace characters
RECURSIVE SplitWS(_)
SplitWS(s) ==
    LET t == LStrip(s)
    IN  IF t = <<>> THEN <<>>
        ELSE <<WordAt(t)>> \o SplitWS(Drop(t, Len(WordAt(t))))

\* sep.join(list)
RECURSIVE Join(_, _)
Join(list, sep) ==
    IF list = <<>> THEN <<>>
    ELSE IF Len(list) = 1 THEN list[1]
    ELSE list[1] \o sep \o Join(Tail(list), sep)

\* ''.join(list)
Concat(list) == Join(list, <<>>)

Range(f) == {f[i] : i \in DOMAIN f}

\* xml.sax.saxutils.escape
Escape(s) ==
    Replace(Replace(Replace(s, <<"&">>, <<"&", "a", "m", "p", ";">>),
                    <<">">>, <<"&", "g", "t", ";">>),
            <<"<">>, <<"&", "l", "t", ";">>)

\* xml.sax.saxutils.unescape
Unescape(s) ==
    Replace(Replace(Replace(s, <<"&", "l", "t", ";">>, <<"<">>),
                    <<"&", "g", "t", ";">>, <<">">>),
            <<"&", "a", "m", "p", ";">>, <<"&">>)

\* the regular expression re matches the whole of text
RECURSIVE ReFullMatch(_, _)
ReFullMatch(re, text) ==
    IF re = <<>> THEN text = <<>>
    ELSE IF Len(re) >= 2 /\ re[2] = "*"
    THEN \E k \in 0..Len(text) :
            /\ \A i \in 1..k : (re[1] = "." /\ text[i] # "\n") \/ re[1] = text[i]
            /\ ReFullMatch(Drop(re, 2), Drop(text, k))
    ELSE /\ text # <<>>
         /\ (re[1] = "." /\ text[1] # "\n") \/ re[1] = text[1]
         /\ ReFullMatch(Tail(re), Tail(text))

\* re.search in the place of re.match: a match that starts anywhere in text
ReMatchAnywhere(re, text) ==
    \E i \in 0..Len(text) : \E k \in i..Len(text) :
        ReFullMatch(re, SubSeq(text, i + 1, k))

\* re.match(format, text) is not None, for a format made of literal
\* characters, "." and a postfix "*" (the only metacharacters of Formats)
RECURSIVE ReMatchHere(_, _)
ReMatchHere(re, text) ==
    IF re = <<>> THEN TRUE
    ELSE IF Len(re) >= 2 /\ re[2] = "*"
    THEN \E k \in 0..Len(text) :
            /\ \A i \in 1..k : (re[1] = "." /\ text[i] # "\n") \/ re[1] = text[i]
            /\ ReMatchHere(Drop(re, 2), Drop(text, k))
    ELSE /\ text # <<>>
         /\ (re[1] = "." /\ text[1] # "\n") \/ re[1] = text[1]
         /\ ReMatchHere(Tail(re), Tail(text))

\* re.compile(format) succeeds: a "*" needs something to repeat, once
ReCompiles(re) ==
    /\ re = <<>> \/ re[1] # "*"
    /\ \A i \in 1..(Len(re) - 1) : ~(re[i] = "*" /\ re[i + 1] = "*")

----------------------------------------------------------------------------
(* Outcomes *)

Ret(v) == [exc |-> "", val |-> v]

Raise(e) == [exc |-> e, val |-> <<>>]

\* the record of a call on a Field: its name, argument and outcome
Call(op, arg, r) == [op |-> op, arg |-> arg, exc |-> r.exc, val |-> r.val]

----------------------------------------------------------------------------
(* fieldformat.py: class attributes *)

TypeNames == {"Text", "HtmlText", "OneLineText", "SpacedText", "Number",
              "Boolean", "Choice", "Combination", "RegularExpression"}

ChoiceFamily == {"Choice", "Combination", "Boolean"}

defaultFormat(t) ==
    CASE t = "Number" -> <<"#", ".", "#", "#">>
      [] t \in {"Choice", "Combination"} -> <<"1", "/", "2", "/", "3", "/", "4">>
      [] t = "Boolean" -> <<"y", "e", "s", "/", "n", "o">>
      [] t = "RegularExpression" -> <<".", "*">>
      [] OTHER -> <<>>

evalHtmlDefault(t) == t = "HtmlText"

fixEvalHtmlSetting(t) == t \notin {"Choice", "Combination", "RegularExpression"}

editSep == "/"

defaultNumLines == 1

----------------------------------------------------------------------------
(* fieldformat.py: ChoiceField.splitText, CombinationField.joinText *)

RECURSIVE SplitTextLoop(_, _)
SplitTextLoop(parts, result) ==
    IF parts = <<>> THEN result
    ELSE LET text == Replace(Strip(Head(parts)), <<NUL>>, <<editSep>>)
         IN  SplitTextLoop(Tail(parts),
                           IF text # <<>> /\ text \notin Range(result)
                           THEN Append(result, text) ELSE result)

\* a mutation: duplicates are kept
SplitTextKeepDups(textStr) ==
    LET parts == SplitOn(Replace(textStr, <<editSep, editSep>>, <<NUL>>), editSep)
    IN  SelectSeq([i \in 1..Len(parts) |->
                      Replace(Strip(parts[i]), <<NUL>>, <<editSep>>)],
                  LAMBDA t : t # <<>>)

splitText(textStr) ==
    SplitTextLoop(SplitOn(Replace(textStr, <<editSep, editSep>>, <<NUL>>), editSep),
                  <<>>)

joinText(textList) ==
    Join([i \in 1..Len(textList) |->
             Replace(textList[i], <<editSep>>, <<editSep, editSep>>)],
         <<editSep>>)

----------------------------------------------------------------------------
(* fieldformat.py: Field objects *)

\* the attributes of a Field object this model keeps; hasEvalHtml is FALSE
\* while __init__ has not yet assigned self.evalHtml
BlankField(name, typeName) ==
    [name |-> name, typeName |-> typeName, format |-> <<>>,
     hasEvalHtml |-> FALSE, evalHtml |-> FALSE,
     choiceList |-> <<>>, choices |-> {}, useFileInfo |-> FALSE,
     prefix |-> <<>>, suffix |-> <<>>, initDefault |-> <<>>,
     numLines |-> defaultNumLines, sortKeyNum |-> 0, sortKeyForward |-> TRUE]

ObjRet(f) == [exc |-> "", obj |-> f]

ObjRaise(e, f) == [exc |-> e, obj |-> f]

\* RegularExpressionField.setFormat with the assignment made before the
\* specifier is compiled
RegExpSetFormatAssignFirst(f, format) ==
    IF ReCompiles(format) THEN ObjRet([f EXCEPT !.format = format])
    ELSE ObjRaise("ValueError", [f EXCEPT !.format = format])

\* RegularExpressionField.setFormat: re.compile(format) first, ValueError
\* for re.error, and only then TextField.setFormat
regExpSetFormat(f, format) ==
    IF ReCompiles(format) THEN ObjRet([f EXCEPT !.format = format])
    ELSE ObjRaise("ValueError", f)

\* setFormat of f's class; obj is the object as the call leaves it
SetFormatOf(f, format) ==
    CASE f.typeName \in {"Choice", "Boolean"} ->
           LET g == [f EXCEPT !.format = format,
                              !.choiceList = splitText(format)]
           IN  IF ~f.hasEvalHtml THEN ObjRaise("AttributeError", g)
               ELSE ObjRet([g EXCEPT !.choices =
                              IF f.evalHtml THEN Range(g.choiceList)
                              ELSE {Escape(c) : c \in Range(g.choiceList)}])
      [] f.typeName = "Combination" ->
           LET g == [f EXCEPT !.format = format]
           IN  IF ~f.hasEvalHtml THEN ObjRaise("AttributeError", g)
               ELSE LET cl == splitText(IF f.evalHtml THEN format
                                        ELSE Escape(format))
                    IN  ObjRet([g EXCEPT !.choiceList = cl, !.choices = Range(cl)])
      [] f.typeName = "RegularExpression" -> regExpSetFormat(f, format)
      [] OTHER -> ObjRet([f EXCEPT !.format = format])

\* the keys prefix, suffix, init, lines, sortkeynum and sortkeyfwd of a
\* field dictionary, each <<>> when absent and <<value>> when present
NoExtra ==
    [prefix |-> <<>>, suffix |-> <<>>, init |-> <<>>, lines |-> <<>>,
     sortkeynum |-> <<>>, sortkeyfwd |-> <<>>]

\* a persisted field dictionary: the keys fieldtype, format and evalhtml,
\* and the other optional keys in extra
FieldData(t, hasFormat, format, hasEvalHtml, evalhtml) ==
    [fieldtype |-> t, hasFormat |-> hasFormat, format |-> format,
     hasEvalHtml |-> hasEvalHtml, evalhtml |-> evalhtml, extra |-> NoExtra]

NoFieldData == FieldData("Text", FALSE, <<>>, FALSE, FALSE)

\* fieldClass(name, fieldData): TextField.__init__ run for class typeName
NewField(name, typeName, fd) ==
    LET r == SetFormatOf(BlankField(name, typeName),
                         IF fd.hasFormat THEN fd.format
                         ELSE defaultFormat(typeName))
    IN  IF r.exc # "" THEN r
        ELSE ObjRet([r.obj EXCEPT
                 !.prefix = IF fd.extra.prefix = <<>> THEN <<>>
                            ELSE fd.extra.prefix[1],
                 !.suffix = IF fd.extra.suffix = <<>> THEN <<>>
                            ELSE fd.extra.suffix[1],
                 !.initDefault = IF fd.extra.init = <<>> THEN <<>>
                                 ELSE fd.extra.init[1],
                 !.numLines = IF fd.extra.lines = <<>> THEN defaultNumLines
                              ELSE fd.extra.lines[1],
                 !.sortKeyNum = IF fd.extra.sortkeynum = <<>> THEN 0
                                ELSE fd.extra.sortkeynum[1],
                 !.sortKeyForward = IF fd.extra.sortkeyfwd = <<>> THEN TRUE
                                    ELSE fd.extra.sortkeyfwd[1],
                 !.hasEvalHtml = TRUE,
                 !.evalHtml = IF ~fixEvalHtmlSetting(typeName) /\ fd.hasEvalHtml
                              THEN fd.evalhtml
                              ELSE evalHtmlDefault(typeName)])

\* a mutation: changeType resets evalHtml for every new class
ChangeTypeResetAlways(f, newType) ==
    LET r == SetFormatOf([f EXCEPT !.typeName = newType], defaultFormat(newType))
    IN  IF r.exc # "" THEN r
        ELSE ObjRet([r.obj EXCEPT !.evalHtml = evalHtmlDefault(newType)])

ChangeTypeOf(f, newType) ==
    LET r == SetFormatOf([f EXCEPT !.typeName = newType], defaultFormat(newType))
    IN  IF r.exc # "" THEN r
        ELSE ObjRet(IF fixEvalHtmlSetting(newType)
                    THEN [r.obj EXCEPT !.evalHtml = evalHtmlDefault(newType)]
                    ELSE r.obj)

\* TextField.formatData(): the dictionary of the field's settings
formatData(f) ==
    LET hasEvalHtml == ~fixEvalHtmlSetting(f.typeName)
                       /\ f.evalHtml # evalHtmlDefault(f.typeName)
    IN  [fieldtype |-> f.typeName,
         hasFormat |-> f.format # <<>>, format |-> f.format,
         hasEvalHtml |-> hasEvalHtml,
         evalhtml |-> IF hasEvalHtml THEN f.evalHtml ELSE FALSE,
         extra |->
            [prefix |-> IF f.prefix # <<>> THEN <<f.prefix>> ELSE <<>>,
             suffix |-> IF f.suffix # <<>> THEN <<f.suffix>> ELSE <<>>,
             init |-> IF f.initDefault # <<>> THEN <<f.initDefault>> ELSE <<>>,
             lines |-> IF f.numLines # defaultNumLines THEN <<f.numLines>>
                       ELSE <<>>,
             sortkeynum |-> IF f.sortKeyNum > 0 THEN <<f.sortKeyNum>> ELSE <<>>,
             sortkeyfwd |-> IF ~f.sortKeyForward THEN <<FALSE>> ELSE <<>>]]

sepName(f) ==
    IF f.useFileInfo THEN <<"{", "*", "!">> \o f.name \o <<"*", "}">>
    ELSE <<"{", "*">> \o f.name \o <<"*", "}">>

\* a mutation: the selections are kept in input order
SortedSelectionsInputOrder(f, inText) ==
    LET sel == splitText(inText)
    IN  [result |-> sel, valid |-> Range(sel) \subseteq Range(f.choiceList)]

sortedSelections(f, inText) ==
    LET selections == Range(splitText(inText))
        result == SelectSeq(f.choiceList, LAMBDA text : text \in selections)
    IN  [result |-> result, valid |-> Cardinality(selections) = Len(result)]

BrTag == <<"<", "b", "r", " ", "/", ">">>

\* the numeric literal service: the literals are the digit strings
Digits == <<"0", "1", "2", "3", "4", "5", "6", "7", "8", "9">>

IsNumber(text) == text # <<>> /\ \A i \in 1..Len(text) : text[i] \in Range(Digits)

RECURSIVE NumValue(_)
NumValue(text) ==
    IF text = <<>> THEN 0
    ELSE 10 * NumValue(SubSeq(text, 1, Len(text) - 1))
         + (CHOOSE d \in 1..10 : Digits[d] = text[Len(text)]) - 1

RECURSIVE numStr(_)
numStr(num) ==
    IF num < 10 THEN <<Digits[num + 1]>>
    ELSE numStr(num \div 10) \o <<Digits[(num % 10) + 1]>>

\* the boolean literal service: the literals without a format
BoolTrue == <<"t", "r", "u", "e">>

BoolFalse == <<"f", "a", "l", "s", "e">>

IsBoolean(text) == text \in {BoolTrue, BoolFalse}

\* boolStr(format): the first item of the format for true, the second for false
boolStr(value, format) ==
    LET items == SplitOn(format, "/")
    IN  IF value THEN items[1]
        ELSE IF Len(items) >= 2 THEN items[2] ELSE <<>>

\* the variants whose conversions are in fieldformat.py alone (Number and
\* Boolean convert through gennumber / genboolean)
ConvTypes == TypeNames \ {"Number", "Boolean"}

formatEditorText(f, storedText) ==
    CASE f.typeName = "Number" ->
           IF storedText = <<>> THEN Ret(<<>>)
           ELSE IF IsNumber(storedText) THEN Ret(numStr(NumValue(storedText)))
           ELSE Raise("ValueError")
      [] f.typeName = "Boolean" ->
           IF storedText = <<>> THEN Ret(<<>>)
           ELSE IF IsBoolean(storedText)
           THEN Ret(boolStr(storedText = BoolTrue, f.format))
           ELSE Raise("ValueError")
      [] f.typeName \in {"Text", "HtmlText"} -> Ret(storedText)
      [] f.typeName = "OneLineText" -> Ret(BeforeFirst(storedText, BrTag))
      [] f.typeName = "SpacedText" -> Ret(Unescape(storedText))
      [] f.typeName = "Choice" ->
           IF storedText # <<>> /\ storedText \notin f.choices
           THEN Raise("ValueError")
           ELSE IF f.evalHtml THEN Ret(storedText)
           ELSE Ret(Unescape(storedText))
      [] f.typeName = "Combination" ->
           IF Range(splitText(storedText)) \subseteq f.choices
           THEN (IF f.evalHtml THEN Ret(storedText)
                 ELSE Ret(Unescape(storedText)))
           ELSE Raise("ValueError")
      [] f.typeName = "RegularExpression" ->
           LET s == IF ~f.evalHtml THEN Unescape(storedText) ELSE storedText
           IN  IF s = <<>> \/ ReMatchHere(f.format, s) THEN Ret(s)
               ELSE Raise("ValueError")

storedText(f, editorText) ==
    CASE f.typeName = "Number" ->
           IF editorText = <<>> THEN Ret(<<>>)
           ELSE IF IsNumber(editorText) THEN Ret(numStr(NumValue(editorText)))
           ELSE Raise("ValueError")
      [] f.typeName = "Boolean" ->
           IF editorText = <<>> THEN Ret(<<>>)
           ELSE IF editorText = boolStr(TRUE, f.format) THEN Ret(BoolTrue)
           ELSE IF editorText = boolStr(FALSE, f.format) THEN Ret(BoolFalse)
           ELSE IF IsBoolean(editorText) THEN Ret(editorText)
           ELSE Raise("ValueError")
      [] f.typeName \in {"Text", "HtmlText", "OneLineText"} -> Ret(editorText)
      [] f.typeName = "SpacedText" -> Ret(Escape(editorText))
      [] f.typeName = "Choice" ->
           LET e == IF ~f.evalHtml THEN Escape(editorText) ELSE editorText
           IN  IF e = <<>> \/ e \in f.choices THEN Ret(e)
               ELSE Raise("ValueError")
      [] f.typeName = "Combination" ->
           LET e == IF ~f.evalHtml THEN Escape(editorText) ELSE editorText
               s == sortedSelections(f, e)
           IN  IF ~s.valid THEN Raise("ValueError")
               ELSE Ret(joinText(s.result))
      [] f.typeName = "RegularExpression" ->
           IF editorText = <<>> \/ ReMatchHere(f.format, editorText)
           THEN (IF f.evalHtml THEN Ret(editorText)
                 ELSE Ret(Escape(editorText)))
           ELSE Raise("ValueError")

storedTextFromTitle(f, titleText) ==
    IF f.typeName \in {"Text", "OneLineText"}
    THEN storedText(f, Escape(titleText))
    ELSE storedText(f, titleText)

----------------------------------------------------------------------------
(* nodeformat.py: templates *)

\* a template segment: a reference to a Field object (ref > 0) or a literal
FieldSeg(id) == [ref |-> id, text |-> <<>>]

TextSeg(text) == [ref |-> 0, text |-> text]

IsFieldSeg(seg) == seg.ref # 0

\* [\w_\-.] of _fieldSplitRe and _fieldPartRe
NameChars ==
    {"a", "b", "c", "d", "e", "f", "g", "h", "i", "j", "k", "l", "m", "n",
     "o", "p", "q", "r", "s", "t", "u", "v", "w", "x", "y", "z",
     "A", "B", "C", "D", "E", "F", "G", "H", "I", "J", "K", "L", "M", "N",
     "O", "P", "Q", "R", "S", "T", "U", "V", "W", "X", "Y", "Z",
     "0", "1", "2", "3", "4", "5", "6", "7", "8", "9", "_", "-", "."}

ModifierChars == {"?", "!", "&", "#"}

RECURSIVE RunLen(_, _)
RunLen(s, set) ==
    IF s # <<>> /\ Head(s) \in set THEN 1 + RunLen(Tail(s), set) ELSE 0

\* _fieldPartRe.match(s): {* modifier name *} at the start of s; len is 0
\* when there is no match
fieldPartMatch(s) ==
    LET none == [len |-> 0, modifier |-> <<>>, name |-> <<>>]
    IN  IF ~IsPrefix(<<"{", "*">>, s) THEN none
        ELSE LET rest == Drop(s, 2)
                 stars == RunLen(rest, {"*"})
                 m == IF stars > 0 THEN stars
                      ELSE IF rest # <<>> /\ Head(rest) \in ModifierChars THEN 1
                      ELSE 0
                 n == RunLen(Drop(rest, m), NameChars)
             IN  IF n > 0 /\ IsPrefix(<<"*", "}">>, Drop(rest, m + n))
                 THEN [len |-> 2 + m + n + 2,
                       modifier |-> SubSeq(rest, 1, m),
                       name |-> SubSeq(rest, m + 1, m + n)]
                 ELSE none

\* _fieldSplitRe.split(text) without its empty parts; acc is the literal
\* text read since the last placeholder
RECURSIVE fieldSplit(_, _)
fieldSplit(s, acc) ==
    LET flush == IF acc = <<>> THEN <<>> ELSE <<acc>>
        m == fieldPartMatch(s)
    IN  IF s = <<>> THEN flush
        ELSE IF m.len > 0
        THEN flush \o <<SubSeq(s, 1, m.len)>> \o fieldSplit(Drop(s, m.len), <<>>)
        ELSE fieldSplit(Tail(s), Append(acc, Head(s)))

\* fieldDict[name], 0 for a KeyError
Lookup(fd, name) ==
    IF \E i \in 1..Len(fd) : fd[i][1] = name
    THEN fd[CHOOSE i \in 1..Len(fd) : fd[i][1] = name][2]
    ELSE 0

fieldNames(fd) == [i \in 1..Len(fd) |-> fd[i][1]]

\* a mutation: the modifier of a placeholder is ignored
ParseFieldAnyModifier(text, fd) ==
    LET fieldMatch == fieldPartMatch(text)
    IN  IF fieldMatch.len > 0 /\ Lookup(fd, fieldMatch.name) # 0
        THEN FieldSeg(Lookup(fd, fieldMatch.name))
        ELSE TextSeg(text)

parseField(text, fd) ==
    LET fieldMatch == fieldPartMatch(text)
    IN  IF fieldMatch.len > 0 /\ fieldMatch.modifier = <<>>
           /\ Lookup(fd, fieldMatch.name) # 0
        THEN FieldSeg(Lookup(fd, fieldMatch.name))
        ELSE TextSeg(text)

\* a mutation: the whitespace of the raw line is kept as it is
ParseLineRaw(text, fd) ==
    LET segments == fieldSplit(text, <<>>)
    IN  [i \in 1..Len(segments) |-> parseField(segments[i], fd)]

parseLine(text, fd) ==
    LET segments == fieldSplit(Join(SplitWS(text), <<" ">>), <<>>)
    IN  [i \in 1..Len(segments) |-> parseField(segments[i], fd)]

\* the line of a template with the field names embedded
lineText(line, os) ==
    Concat([i \in 1..Len(line) |->
               IF IsFieldSeg(line[i]) THEN sepName(os[line[i].ref])
               ELSE line[i].text])

getTitleLine == lineText(titleLine, objs)

\* the lines of the output templates ol, [''] when there is none
outputLineTexts(ol, os) ==
    IF ol = <<>> THEN << <<>> >>
    ELSE [i \in 1..Len(ol) |-> lineText(ol[i], os)]

getOutputLines == outputLineTexts(outputLines, objs)

\* the templates as updateLineParsing leaves them
updateLineParsing(tl, ol, os, fd) ==
    LET lines == outputLineTexts(ol, os)
    IN  [titleLine |-> parseLine(lineText(tl, os), fd),
         outputLines |-> [i \in 1..Len(lines) |-> parseLine(lines[i], fd)]]

----------------------------------------------------------------------------
(* nodeformat.py: extractTitleData *)

NoMatch == [ok |-> FALSE, groups |-> <<>>]

\* the length of the longest run of characters "." matches at the start of s
DotRun(s) ==
    IF \A i \in 1..Len(s) : s[i] # "\n" THEN Len(s)
    ELSE (CHOOSE i \in 1..Len(s) : s[i] = "\n" /\ \A j \in 1..(i - 1) : s[j] # "\n") - 1

\* re.match(pattern, s) for the pattern of the segments segs: "(.*)" for a
\* field, greedy, and the escaped text for a literal; the match starts at
\* the first character of s and ends where the pattern ends
RECURSIVE matchTitle(_, _)
matchTitle(segs, s) ==
    IF segs = <<>> THEN [ok |-> TRUE, groups |-> <<>>]
    ELSE IF IsFieldSeg(Head(segs))
    THEN LET ks == {k \in 0..DotRun(s) : matchTitle(Tail(segs), Drop(s, k)).ok}
         IN  IF ks = {} THEN NoMatch
             ELSE LET k == CHOOSE x \in ks : \A y \in ks : y <= x
                  IN  [ok |-> TRUE,
                       groups |-> <<SubSeq(s, 1, k)>>
                                  \o matchTitle(Tail(segs), Drop(s, k)).groups]
    ELSE IF IsPrefix(Head(segs).text, s)
         THEN matchTitle(Tail(segs), Drop(s, Len(Head(segs).text)))
         ELSE NoMatch

DataSet(d, key, value) ==
    [k \in DOMAIN d \cup {key} |-> IF k = key THEN value ELSE d[k]]

\* the outcome of a call on the node's data: the value returned (when exc
\* is "") and the data mapping as the call leaves it
DataRet(ret, d) == [exc |-> "", ret |-> ret, data |-> d]

DataRaise(e, d) == [exc |-> e, ret |-> FALSE, data |-> d]

\* a mutation: the captured text is written without conversion
RECURSIVE MatchLoopRaw(_, _, _, _)
MatchLoopRaw(fields, groups, os, d) ==
    IF fields = <<>> THEN DataRet(TRUE, d)
    ELSE MatchLoopRaw(Tail(fields), Tail(groups), os,
                      DataSet(d, os[Head(fields)].name, Head(groups)))

\* the loop of the match branch: a ValueError ends it and returns False
RECURSIVE matchLoop(_, _, _, _)
matchLoop(fields, groups, os, d) ==
    IF fields = <<>> THEN DataRet(TRUE, d)
    ELSE LET field == os[Head(fields)]
             r == storedTextFromTitle(field, Head(groups))
         IN  IF r.exc = "ValueError" THEN DataRet(FALSE, d)
             ELSE matchLoop(Tail(fields), Tail(groups), os,
                            DataSet(d, field.name, r.val))

RECURSIVE clearLoop(_, _, _)
clearLoop(fields, os, d) ==
    IF fields = <<>> THEN d
    ELSE clearLoop(Tail(fields), os, DataSet(d, os[Head(fields)].name, <<>>))

titleFields(tl) ==
    LET segs == SelectSeq(tl, IsFieldSeg)
    IN  [i \in 1..Len(segs) |-> segs[i].ref]

titleExtraText(tl) ==
    Concat([i \in 1..Len(tl) |-> tl[i].text])

\* a mutation: the other fields of the template keep their text
FallbackNoClear(fields, os, titleString, d) ==
    IF fields = <<>> THEN DataRaise("IndexError", d)
    ELSE LET r == storedTextFromTitle(os[fields[1]], titleString)
         IN  IF r.exc = "ValueError" THEN DataRet(FALSE, d)
             ELSE DataRet(TRUE, DataSet(d, os[fields[1]].name, r.val))

\* the branch taken when the pattern does not match and the literal text is
\* whitespace only
fallback(fields, os, titleString, d) ==
    IF fields = <<>> THEN DataRaise("IndexError", d)
    ELSE LET r == storedTextFromTitle(os[fields[1]], titleString)
         IN  IF r.exc = "ValueError" THEN DataRet(FALSE, d)
             ELSE DataRet(TRUE, clearLoop(Tail(fields), os,
                                          DataSet(d, os[fields[1]].name, r.val)))

extractTitleData(tl, os, titleString, d) ==
    LET fields == titleFields(tl)
        match == matchTitle(tl, titleString)
    IN  IF match.ok THEN matchLoop(fields, match.groups, os, d)
        ELSE IF Strip(titleExtraText(tl)) = <<>>
        THEN fallback(fields, os, titleString, d)
        ELSE DataRet(FALSE, d)

----------------------------------------------------------------------------
(* Node format specification: a NodeFormat, its Field objects and one node *)

NameN == <<"N", "a", "m", "e">>

NameT == <<"T", "a", "g">>

NameD == <<"D", "a", "t", "e">>

Names == {NameN, NameT, NameD}

\* the field types given to addField and changeType here
SpecTypes == {"Choice"}

Ph(name) == <<"{", "*">> \o name \o <<"*", "}">>

TplNameTag == Ph(NameN) \o <<" ">> \o Ph(NameT)

TplNameDate == Ph(NameN) \o <<":", " ">> \o Ph(NameD)

TplNameBang == Ph(NameN) \o <<"!">>

TplNameName == Ph(NameN) \o <<" ">> \o Ph(NameN)

TitleTemplates == {TplNameTag, TplNameDate, TplNameBang, TplNameName}

Hello == <<"H", "e", "l", "l", "o">>

World == <<"W", "o", "r", "l", "d">>

Trip == <<"T", "r", "i", "p">>

TheDate == <<"2", "0", "2", "4", "-", "0", "1", "-", "0", "1">>

TitleAlpha == {"a", " "}

BoundedTitles == UNION {[1..n -> TitleAlpha] : n \in 0..MaxTitleLen}

Titles ==
    BoundedTitles \cup
    { Hello \o <<" ">> \o World, Hello,
      Trip \o <<":", " ">> \o TheDate, Trip \o <<":", " ", "1">>,
      Trip \o <<"!">>, Trip \o <<"!", "x">>, <<"a", "&", "b", " ", "c">>,
      <<"a", " ", "b", " ", "c">> }

EmptyData == [k \in {} |-> <<>>]

Old == <<"o", "l", "d">>

\* the data mappings (TreeNode.data) given to extractTitleData
DataInits == {EmptyData, [k \in {NameT, NameD} |-> Old], [k \in {NameN} |-> Old]}

\* self.fieldDict[name] = field
DictSet(fd, name, id) ==
    IF Lookup(fd, name) # 0
    THEN [i \in 1..Len(fd) |-> IF fd[i][1] = name THEN <<name, id>> ELSE fd[i]]
    ELSE Append(fd, <<name, id>>)

\* the record of a NodeFormat call: before and data are the data mapping
\* the call was given, as it was and as the call leaves it
NfCall(op, arg, exc, ret) ==
    [op |-> op, arg |-> arg, exc |-> exc, ret |-> ret,
     before |-> EmptyData, data |-> EmptyData]

\* spaceBetween, formatHtml, childType and iconName of a NodeFormat made
\* from a dictionary without those keys
DefaultOpts ==
    [spaceBetween |-> TRUE, formatHtml |-> FALSE,
     childType |-> <<>>, iconName |-> <<>>]

\* NodeFormat(name, formatData) for a formatData with the Text fields Name,
\* Tag and Date and no title or output line
Init ==
    /\ objs = <<NewField(NameN, "Text", NoFieldData).obj,
                NewField(NameT, "Text", NoFieldData).obj,
                NewField(NameD, "Text", NoFieldData).obj>>
    /\ fieldDict = <<<<NameN, 1>>, <<NameT, 2>>, <<NameD, 3>>>>
    /\ titleLine = updateLineParsing(<<TextSeg(<<>>)>>, << <<>> >>,
                                     objs, fieldDict).titleLine
    /\ outputLines = updateLineParsing(<<TextSeg(<<>>)>>, << <<>> >>,
                                       objs, fieldDict).outputLines
    /\ last = NfCall("init", <<>>, "", TRUE)
    /\ fld = NewField(NameN, "Text", NoFieldData).obj
    /\ conv = Call("init", <<>>, Ret(<<>>))
    /\ opts = DefaultOpts
    /\ nodes = <<>>

\* getattr(fieldformat, typeName + 'Field', fieldformat.TextField): the
\* class of the type name, TextField for a name the module does not define
fieldClass(typeName) == IF typeName \in TypeNames THEN typeName ELSE "Text"

\* addField(name, {'fieldtype': typeName}) on the objects os and the field
\* mapping fd: the new object and the mapping with name bound to it
addField(os, fd, name, typeName) ==
    LET r == NewField(name, fieldClass(typeName),
                      FieldData(typeName, FALSE, <<>>, FALSE, FALSE))
    IN  IF r.exc # "" THEN [exc |-> r.exc, objs |-> os, fieldDict |-> fd]
        ELSE [exc |-> "", objs |-> Append(os, r.obj),
              fieldDict |-> DictSet(fd, name, Len(os) + 1)]

\* NodeFormat.addField(name, {'fieldtype': typeName})
AddField(name, typeName) ==
    LET r == addField(objs, fieldDict, name, typeName)
    IN  /\ Len(objs) < MaxObjs
        /\ objs' = r.objs
        /\ fieldDict' = r.fieldDict
        /\ last' = NfCall("addField", <<name, typeName>>, r.exc, TRUE)
        /\ UNCHANGED <<titleLine, outputLines>>

\* Field.changeType(newType) on the object id
ChangeType(id, newType) ==
    LET r == ChangeTypeOf(objs[id], newType)
    IN  /\ objs[id].typeName # newType
        /\ objs' = [objs EXCEPT ![id] = r.obj]
        /\ last' = NfCall("changeType", <<>>, r.exc, TRUE)
        /\ UNCHANGED <<fieldDict, titleLine, outputLines>>

\* NodeFormat.changeTitleLine(text)
ChangeTitleLine(text) ==
    LET parsed == parseLine(text, fieldDict)
    IN  /\ titleLine' = IF parsed = <<>> THEN <<TextSeg(<<>>)>> ELSE parsed
        /\ last' = NfCall("changeTitleLine", text, "", TRUE)
        /\ UNCHANGED <<objs, fieldDict, outputLines>>

\* NodeFormat.removeField(field) for the object id: the segments are removed
\* and then self.lineList, which no NodeFormat has, raises AttributeError
RemoveField(id) ==
    LET keep(seg) == seg.ref # id
        lines == [i \in 1..Len(outputLines) |-> SelectSeq(outputLines[i], keep)]
    IN  /\ titleLine' = SelectSeq(titleLine, keep)
        /\ outputLines' = SelectSeq(lines, LAMBDA line : line # <<>>)
        /\ last' = NfCall("removeField", <<>>, "AttributeError", TRUE)
        /\ UNCHANGED <<objs, fieldDict>>

\* NodeFormat.extractTitleData(titleString, data) for a mapping that holds d
ExtractTitleData(titleString, d) ==
    LET r == extractTitleData(titleLine, objs, titleString, d)
    IN  /\ last' = [op |-> "extractTitleData", arg |-> titleString,
                    exc |-> r.exc, ret |-> r.ret, before |-> d, data |-> r.data]
        /\ UNCHANGED <<objs, fieldDict, titleLine, outputLines>>

Next ==
    \/ \E id \in 1..Len(objs), t \in SpecTypes : ChangeType(id, t) /\ UNCHANGED <<fVars, restVars>>
    \/ \E text \in TitleTemplates : ChangeTitleLine(text) /\ UNCHANGED <<fVars, restVars>>
    \/ \E id \in 1..Len(objs) : RemoveField(id) /\ UNCHANGED <<fVars, restVars>>
    \/ \E title \in Titles, d \in DataInits :
           ExtractTitleData(title, d) /\ UNCHANGED <<fVars, restVars>>

Spec == Init /\ [][Next]_vars

----------------------------------------------------------------------------
(* Template line specification: changeTitleLine on raw lines *)

TplDash == Ph(NameN) \o <<" ", "-", " ">> \o Ph(NameD)

\* the pieces raw lines are built from: whitespace, literal text, placeholders
\* of defined fields, a placeholder with a modifier, one of an unknown name,
\* and the two halves of a placeholder
LinePieces ==
    { <<" ">>, <<"\t">>, <<"a">>, <<"-">>, Ph(NameN), Ph(NameD),
      <<"{", "*", "?">> \o NameN \o <<"*", "}">>, Ph(<<"Z", "e", "d">>),
      <<"{", "*">>, <<"*", "}">> }

RECURSIVE LinesOf(_)
LinesOf(n) ==
    IF n = 0 THEN {<<>>}
    ELSE LinesOf(n - 1) \cup {l \o piece : l \in LinesOf(n - 1), piece \in LinePieces}

RawLines ==
    LinesOf(MaxParts) \cup
    { TplDash, <<" ">> \o TplDash \o <<" ">>,
      Ph(NameN) \o <<" ", "\t", "-", " ", "\n">> \o Ph(NameD) }

LineNext == \E text \in RawLines : ChangeTitleLine(text) /\ UNCHANGED <<fVars, restVars>>

SpecLine == Init /\ [][LineNext]_vars

----------------------------------------------------------------------------
(* Field specification: one Field object and the calls made on it *)

FmtXYZ == <<"x", "/", "y", "/", "z">>

\* the choices "a" and "/" : the second item is a doubled separator
FmtASlash == <<"a", "/", " ", "/", "/">>

FmtAmp == <<"a", "&", "b", "/", "c">>

FmtRe == <<"a", "b", ".", "*">>

FmtBadRe == <<"*", "a">>

\* format specifiers given to setFormat; as regular expressions they use no
\* metacharacter but "." and "*"
Formats == {FmtXYZ, FmtASlash, FmtAmp, FmtRe, FmtBadRe}

SmallAlpha == {"a", "/"}

BoundedTexts == UNION {[1..n -> SmallAlpha] : n \in 0..MaxTextLen}

TxtAbExtra == <<"a", "b", "X", "Y", "Z", "e", "x", "t", "r", "a">>

ExtraTexts ==
    { <<"z", "/", "x">>, <<"x", "/", "z", "/", "x">>, <<"x", "/", "q">>,
      <<" ", "z", " ", "/", "y">>,
      <<"a", "/", "/", "b", "/", "c", "/", "a">>,
      <<"a", "/", "/", "b", "/", "c", "/", "a", "/", "/", "b">>,
      <<"a", "&", "b">>, <<"a", "&", "a", "m", "p", ";", "b">>,
      <<"a">> \o BrTag \o <<"b">>,
      <<"/", "/", "/", "a">>,
      <<"a", "b", "X", "Y", "Z">>, <<"X", "a", "b">>, TxtAbExtra }

Texts == BoundedTexts \cup ExtraTexts

\* the field dictionaries a field is constructed from
FieldDatas ==
    {FieldData(t, FALSE, <<>>, FALSE, FALSE) : t \in ConvTypes}
    \cup {FieldData(t, TRUE, FmtXYZ, TRUE, TRUE) :
              t \in {"Choice", "RegularExpression"}}

FInit ==
    /\ fld = NewField(NameN, "Text", NoFieldData).obj
    /\ conv = Call("init", <<>>, Ret(<<>>))
    /\ objs = <<>>
    /\ fieldDict = <<>>
    /\ titleLine = <<>>
    /\ outputLines = <<>>
    /\ last = NfCall("init", <<>>, "", TRUE)
    /\ opts = DefaultOpts
    /\ nodes = <<>>

\* fieldClass(name, fieldData); a raising constructor leaves no new object
FConstruct(fd) ==
    LET r == NewField(NameN, fd.fieldtype, fd)
    IN  /\ fld' = IF r.exc = "" THEN r.obj ELSE fld
        /\ conv' = Call("construct", fd, [exc |-> r.exc, val |-> <<>>])

FChangeType(t) ==
    LET r == ChangeTypeOf(fld, t)
    IN  /\ t # fld.typeName
        /\ fld' = r.obj
        /\ conv' = Call("changeType", <<>>, [exc |-> r.exc, val |-> <<>>])

FSetFormat(format) ==
    LET r == SetFormatOf(fld, format)
    IN  /\ fld' = r.obj
        /\ conv' = Call("setFormat", format, [exc |-> r.exc, val |-> <<>>])

FStoredText(editorText) ==
    /\ fld' = fld
    /\ conv' = Call("storedText", editorText, storedText(fld, editorText))

FFormatEditorText(text) ==
    /\ fld' = fld
    /\ conv' = Call("formatEditorText", text, formatEditorText(fld, text))

FSplitText(textStr) ==
    /\ fld.typeName \in ChoiceFamily
    /\ fld' = fld
    /\ conv' = Call("splitText", textStr, Ret(splitText(textStr)))

FNext ==
    \/ \E fd \in FieldDatas : FConstruct(fd) /\ UNCHANGED <<nfVars, restVars>>
    \/ \E t \in ConvTypes : FChangeType(t) /\ UNCHANGED <<nfVars, restVars>>
    \/ \E format \in Formats : FSetFormat(format) /\ UNCHANGED <<nfVars, restVars>>
    \/ \E e \in Texts : FStoredText(e) /\ UNCHANGED <<nfVars, restVars>>
    \/ \E s \in Texts : FFormatEditorText(s) /\ UNCHANGED <<nfVars, restVars>>
    \/ \E t \in Texts : FSplitText(t) /\ UNCHANGED <<nfVars, restVars>>

SpecField == FInit /\ [][FNext]_vars

----------------------------------------------------------------------------
(* Claims about Field conversions, under SpecField *)

TxtSplitEx == <<"a", "/", "/", "b", "/", "c", "/", "a">>

TxtSplitEx2 == <<"a", "/", "/", "b", "/", "c", "/", "a", "/", "/", "b">>

ItemAB == <<"a", "/", "b">>

\* the pieces between single separators, stripped, a doubled separator
\* read as one literal separator
DecodedPieces(textStr) ==
    LET parts == SplitOn(Replace(textStr, <<editSep, editSep>>, <<NUL>>), editSep)
    IN  [i \in 1..Len(parts) |-> Replace(Strip(parts[i]), <<NUL>>, <<editSep>>)]

FirstAt(seq, x) == CHOOSE i \in 1..Len(seq) : seq[i] = x /\ \A j \in 1..(i - 1) : seq[j] # x

\* C6 as stated: splitText("a//b/c/a") returns ["a/b", "c"].
C6_SplitTextExampleAsClaimed ==
    (conv.op = "splitText" /\ conv.arg = TxtSplitEx)
        => conv.val = <<ItemAB, <<"c">>>>

\* C6 amended: splitText returns the non-empty decoded pieces (a doubled
\* delimiter read as one literal delimiter), each once, in first-seen order;
\* "a" is no duplicate of "a/b", so splitText("a//b/c/a") is
\* ["a/b", "c", "a"], and splitText("a//b/c/a//b") is ["a/b", "c"].
C6_SplitTextDedupOrder ==
    conv.op = "splitText" =>
        LET pieces == DecodedPieces(conv.arg)
            res == conv.val
        IN  /\ conv.exc = ""
            /\ Range(res) = Range(pieces) \ {<<>>}
            /\ \A i, j \in 1..Len(res) : i < j =>
                   /\ res[i] # res[j]
                   /\ FirstAt(pieces, res[i]) < FirstAt(pieces, res[j])
            /\ conv.arg = TxtSplitEx => res = <<ItemAB, <<"c">>, <<"a">>>>
            /\ conv.arg = TxtSplitEx2 => res = <<ItemAB, <<"c">>>>

C6_Witness ==
    /\ conv.op = "splitText"
    /\ conv.arg = TxtSplitEx
    /\ conv.val = <<ItemAB, <<"c">>, <<"a">>>>

\* the declared choices of a format, and those of them that are selected
Declared(format) == splitText(format)

InDeclaredOrder(format, sel) ==
    SelectSeq(Declared(format), LAMBDA c : c \in sel)

\* C7: a Combination field's storedText returns the selections of the editor
\* text serialized in declared order whatever the input order and
\* repetitions (HTML-escaped unless evalHtml), "z/x" under "x/y/z" giving
\* "x/z"; a selection that is not declared raises ValueError.
C7_CombinationDeclaredOrder ==
    (conv.op = "storedText" /\ fld.typeName = "Combination") =>
        LET sel == Range(splitText(conv.arg))
            ser == joinText(InDeclaredOrder(fld.format, sel))
        IN  /\ sel \subseteq Range(Declared(fld.format))
                => /\ conv.exc = ""
                   /\ conv.val = IF fld.evalHtml THEN ser ELSE Escape(ser)
                   /\ \A e \in Texts : Range(splitText(e)) = sel
                          => storedText(fld, e) = Ret(conv.val)
            /\ ~(sel \subseteq Range(Declared(fld.format)))
                => conv.exc = "ValueError"
            /\ (fld.format = FmtXYZ /\ conv.arg = <<"z", "/", "x">>)
                => conv.val = <<"x", "/", "z">>

C7_Witness ==
    /\ conv.op = "storedText"
    /\ fld.typeName = "Combination"
    /\ fld.format = FmtXYZ
    /\ conv.arg = <<"z", "/", "x">>
    /\ conv.val = <<"x", "/", "z">>

\* C9 as stated: for every variant and every stored text s returned by
\* storedText, storedText(formatEditorText(s)) equals s.
C9_StoredRoundTrip ==
    (conv.op = "storedText" /\ conv.exc = "") =>
        LET r == formatEditorText(fld, conv.val)
        IN  /\ r.exc = ""
            /\ storedText(fld, r.val) = Ret(conv.val)

\* C10 as stated: for every variant and every accepted editor text e,
\* formatEditorText(storedText(e)) equals e up to OneLineText truncation and
\* Combination reordering, and a second application changes nothing.
C10_EditorRoundTrip ==
    (conv.op = "storedText" /\ conv.exc = "") =>
        LET r == formatEditorText(fld, conv.val)
            again == storedText(fld, r.val)
        IN  /\ r.exc = ""
            /\ CASE fld.typeName = "OneLineText" ->
                      r.val = BeforeFirst(conv.arg, BrTag)
                 [] fld.typeName = "Combination" ->
                      splitText(r.val) =
                          InDeclaredOrder(fld.format, Range(splitText(conv.arg)))
                 [] OTHER -> r.val = conv.arg
            /\ again.exc = ""
            /\ formatEditorText(fld, again.val) = r

----------------------------------------------------------------------------
(* Claims about extractTitleData, under Spec *)

IsExtract == last.op = "extractTitleData"

Get(d, k) == IF k \in DOMAIN d THEN d[k] ELSE <<>>

\* the title template is "{*Name*} {*Tag*}" over the Text fields of the mapping
NameTagTemplate ==
    /\ titleLine = <<FieldSeg(1), TextSeg(<<" ">>), FieldSeg(2)>>
    /\ objs[1].typeName = "Text" /\ objs[2].typeName = "Text"

\* the title template is "{*Name*}: {*Date*}" over the Text fields of the mapping
NameDateTemplate ==
    /\ titleLine = <<FieldSeg(1), TextSeg(<<":", " ">>), FieldSeg(3)>>
    /\ objs[1].typeName = "Text" /\ objs[3].typeName = "Text"

\* C1 as stated: whenever extractTitleData returns False the data mapping is
\* what it was before the call.
C1_FalseLeavesDataUnchanged ==
    (IsExtract /\ last.exc = "" /\ ~last.ret) => last.data = last.before

\* C2 as stated: extractTitleData reports its outcome as a boolean and never
\* raises, whatever the title template and the title string.
C2_NeverRaises == IsExtract => last.exc = ""

\* C3 as stated: with "{*Name*} {*Tag*}" over Text fields and the title
\* "Hello World", Name gets the whole string and Tag is cleared.
C3_WholeStringToFirstField ==
    (IsExtract /\ NameTagTemplate /\ last.arg = Hello \o <<" ">> \o World) =>
        /\ last.exc = "" /\ last.ret
        /\ Get(last.data, NameN) = Hello \o <<" ">> \o World
        /\ NameT \in DOMAIN last.data /\ last.data[NameT] = <<>>

TemplateFieldsAreText ==
    \A i \in 1..Len(titleLine) :
        IsFieldSeg(titleLine[i]) => objs[titleLine[i].ref].typeName = "Text"

TemplateNames == {objs[titleLine[i].ref].name :
                     i \in {j \in 1..Len(titleLine) : IsFieldSeg(titleLine[j])}}

OthersUnchanged ==
    \A k \in (DOMAIN last.data \cup DOMAIN last.before) \ TemplateNames :
        /\ k \in DOMAIN last.data /\ k \in DOMAIN last.before
        /\ last.data[k] = last.before[k]

\* C3 amended: a title with a space matches "{*Name*} {*Tag*}", so that the
\* text before its last space goes to Name and the text after it to Tag
\* ("Hello World" gives Name "Hello" and Tag "World"); when the pattern of a
\* template whose literal content is whitespace only does not match (a title
\* without a space, such as "Hello"), the whole string goes to the first
\* field and every other field of the template is cleared; both return True.
C3_WhitespaceTemplate ==
    /\ (IsExtract /\ NameTagTemplate) =>
          LET t == last.arg
              spaces == {i \in 1..Len(t) : t[i] = " "}
              cut == CHOOSE i \in spaces : \A j \in spaces : j <= i
          IN  /\ last.exc = "" /\ last.ret
              /\ spaces # {} =>
                    /\ Get(last.data, NameN) = Escape(SubSeq(t, 1, cut - 1))
                    /\ Get(last.data, NameT) = Escape(Drop(t, cut))
              /\ spaces = {} =>
                    /\ Get(last.data, NameN) = Escape(t)
                    /\ NameT \in DOMAIN last.data /\ last.data[NameT] = <<>>
              /\ t = Hello \o <<" ">> \o World =>
                    last.data[NameN] = Hello /\ last.data[NameT] = World
              /\ OthersUnchanged
    /\ ( /\ IsExtract /\ TemplateFieldsAreText /\ titleFields(titleLine) # <<>>
         /\ Strip(titleExtraText(titleLine)) = <<>>
         /\ ~matchTitle(titleLine, last.arg).ok ) =>
          LET first == objs[titleFields(titleLine)[1]].name
          IN  /\ last.exc = "" /\ last.ret
              /\ \A k \in TemplateNames :
                    /\ k \in DOMAIN last.data
                    /\ last.data[k] =
                          IF k = first
                             /\ \A i \in 2..Len(titleFields(titleLine)) :
                                   objs[titleFields(titleLine)[i]].name # first
                          THEN Escape(last.arg) ELSE <<>>
              /\ OthersUnchanged

C3_Witness ==
    /\ IsExtract /\ NameTagTemplate
    /\ last.arg = Hello
    /\ Get(last.before, NameT) = Old
    /\ last.ret
    /\ last.data[NameN] = Hello /\ last.data[NameT] = <<>>

\* the segments spell the whole of s, each field segment standing for some
\* text without a line break
RECURSIVE SpellsWhole(_, _)
SpellsWhole(segs, s) ==
    IF segs = <<>> THEN s = <<>>
    ELSE IF IsFieldSeg(Head(segs))
    THEN \E k \in 0..DotRun(s) : SpellsWhole(Tail(segs), Drop(s, k))
    ELSE /\ IsPrefix(Head(segs).text, s)
         /\ SpellsWhole(Tail(segs), Drop(s, Len(Head(segs).text)))

\* C4 as stated: the pattern-match path is taken only when the pattern
\* matches the whole title string.  With literal content that is not
\* whitespace only, True is returned on the pattern-match path alone.
C4_MatchIsFullMatch ==
    (IsExtract /\ last.exc = "" /\ last.ret
       /\ Strip(titleExtraText(titleLine)) # <<>>)
        => SpellsWhole(titleLine, last.arg)

\* the text the match branch leaves for field name k: the conversion of the
\* group of the last field segment of that name
ConvertedGroup(k) ==
    LET fields == titleFields(titleLine)
        groups == matchTitle(titleLine, last.arg).groups
        i == CHOOSE x \in 1..Len(fields) :
                 /\ objs[fields[x]].name = k
                 /\ \A y \in (x + 1)..Len(fields) : objs[fields[y]].name # k
    IN  storedTextFromTitle(objs[fields[i]], groups[i])

AllGroupsAccepted ==
    LET fields == titleFields(titleLine)
        groups == matchTitle(titleLine, last.arg).groups
    IN  \A i \in 1..Len(fields) :
            storedTextFromTitle(objs[fields[i]], groups[i]).exc = ""

MatchWrites ==
    /\ last.exc = "" /\ last.ret
    /\ \A k \in TemplateNames :
          k \in DOMAIN last.data /\ last.data[k] = ConvertedGroup(k).val
    /\ OthersUnchanged
    /\ (NameDateTemplate /\ last.arg = Trip \o <<":", " ">> \o TheDate) =>
          last.data[NameN] = Trip /\ last.data[NameD] = TheDate

\* C5 as stated: when the title pattern matches, each field of the template
\* gets storedTextFromTitle of its captured group, the other entries of data
\* are unchanged, and True is returned.
C5_MatchWritesAndReturnsTrue ==
    (IsExtract /\ matchTitle(titleLine, last.arg).ok) => MatchWrites

\* C5 amended: when the title pattern matches and storedTextFromTitle accepts
\* every captured group (it always does for Text fields), each field of the
\* template gets storedTextFromTitle of its captured group, the other
\* entries of data are unchanged, and True is returned; "Trip: 2024-01-01"
\* under "{*Name*}: {*Date*}" gives Name "Trip" and Date "2024-01-01".
C5_AcceptedMatchWrites ==
    /\ (IsExtract /\ matchTitle(titleLine, last.arg).ok /\ AllGroupsAccepted)
          => MatchWrites
    /\ (IsExtract /\ matchTitle(titleLine, last.arg).ok /\ TemplateFieldsAreText)
          => AllGroupsAccepted

C5_Witness ==
    /\ IsExtract /\ NameDateTemplate
    /\ last.arg = Trip \o <<":", " ">> \o TheDate
    /\ Get(last.before, NameT) = Old
    /\ last.ret
    /\ last.data[NameN] = Trip /\ last.data[NameD] = TheDate
    /\ last.data[NameT] = Old

----------------------------------------------------------------------------
(* Claims about template lines, under SpecLine *)

\* each run of whitespace replaced by one space
RECURSIVE CollapseRuns(_)
CollapseRuns(s) ==
    IF s = <<>> THEN <<>>
    ELSE IF Head(s) \in Whitespace
    THEN <<" ">> \o CollapseRuns(Drop(s, RunLen(s, Whitespace)))
    ELSE <<Head(s)>> \o CollapseRuns(Tail(s))

Contains(text, sub) ==
    \E i \in 0..Len(text) : IsPrefix(sub, Drop(text, i))

\* the placeholders of the raw lines that carry a modifier or name no field
InertPlaceholders ==
    { <<"{", "*", "?">> \o NameN \o <<"*", "}">>, Ph(<<"Z", "e", "d">>) }

\* C23: after parsing a line, every field segment is the field the mapping
\* holds under the name of its placeholder, the segments spell the line
\* (so nothing but a plain placeholder of a known name became a field
\* segment), no literal segment holds a plain placeholder of a known name,
\* a placeholder with a modifier or an unknown name is a literal segment of
\* its own, verbatim, and the call does not raise.
C23_FieldRefExactlyForPlainKnown ==
    last.op = "changeTitleLine" =>
        /\ last.exc = ""
        /\ Concat([i \in 1..Len(titleLine) |->
                     IF IsFieldSeg(titleLine[i])
                     THEN Ph(objs[titleLine[i].ref].name)
                     ELSE titleLine[i].text]) = CollapseRuns(Strip(last.arg))
        /\ \A i \in 1..Len(titleLine) :
              IF IsFieldSeg(titleLine[i])
              THEN \E k \in 1..Len(fieldDict) :
                      /\ fieldDict[k][2] = titleLine[i].ref
                      /\ fieldDict[k][1] = objs[titleLine[i].ref].name
              ELSE \A k \in 1..Len(fieldDict) :
                      ~Contains(titleLine[i].text, Ph(fieldDict[k][1]))
        /\ \A p \in InertPlaceholders :
              Contains(last.arg, p)
                 => \E i \in 1..Len(titleLine) : titleLine[i] = TextSeg(p)

\* the line "{*Name*}{*?Name*}" was parsed: a field segment and a literal
C23_Witness ==
    /\ last.op = "changeTitleLine"
    /\ last.arg = Ph(NameN) \o <<"{", "*", "?">> \o NameN \o <<"*", "}">>
    /\ titleLine = <<FieldSeg(1), TextSeg(<<"{", "*", "?">> \o NameN \o <<"*", "}">>)>>

----------------------------------------------------------------------------
(* Persistence specification: a NodeFormat loaded from a dictionary and      *)
(* dumped by storeFormat                                                     *)

\* the output line lists of the dictionaries have at most this many lines
MaxOutLines == 2

\* a dictionary with optional keys holds, for each key, <<>> when the key is
\* absent and <<value>> when it is present
HasKey(d, key) == d[key] # <<>>

\* dict.get(key, default)
DictGet(d, key, default) == IF HasKey(d, key) THEN d[key][1] ELSE default

\* the optional keys of a persisted node-format dictionary, each absent or
\* present with one of its values
OptDicts ==
    [spacebetween : {<<>>, <<TRUE>>, <<FALSE>>},
     formathtml : {<<>>, <<TRUE>>, <<FALSE>>},
     childtype : {<<>>, << <<>> >>, << <<"c">> >>},
     icon : {<<>>, << <<>> >>, << <<"i">> >>}]

LineAB == <<"a", " ", "\t", "b">>

StoredLines == {Ph(NameN), LineAB}

StoredTitleLines == {<<>>, TplNameDate, <<" ">> \o Ph(NameN) \o <<" ", " ", "x">>}

\* persisted node-format dictionaries over the fields Name, Tag and Date
FormatDicts ==
    {[titleline |-> t, outputlines |-> ol, opts |-> o] :
        t \in StoredTitleLines,
        ol \in UNION {[1..n -> StoredLines] : n \in 0..MaxOutLines},
        o \in OptDicts}

\* NodeFormat(name, formatData): the title line is kept as one raw part, the
\* output lines as the parts of one line, and updateLineParsing parses them
NodeFormatFrom(d) ==
    LET os == <<NewField(NameN, "Text", NoFieldData).obj,
                NewField(NameT, "Text", NoFieldData).obj,
                NewField(NameD, "Text", NoFieldData).obj>>
        fd == <<<<NameN, 1>>, <<NameT, 2>>, <<NameD, 3>>>>
        rawTitle == <<TextSeg(d.titleline)>>
        rawOutput == <<[i \in 1..Len(d.outputlines) |-> TextSeg(d.outputlines[i])]>>
        parsed == updateLineParsing(rawTitle, rawOutput, os, fd)
    IN  [objs |-> os, fieldDict |-> fd,
         titleLine |-> parsed.titleLine, outputLines |-> parsed.outputLines,
         opts |-> [spaceBetween |-> DictGet(d.opts, "spacebetween", TRUE),
                   formatHtml |-> DictGet(d.opts, "formathtml", FALSE),
                   childType |-> DictGet(d.opts, "childtype", <<>>),
                   iconName |-> DictGet(d.opts, "icon", <<>>)]]

\* the states after NodeFormat(name, d) for the dictionaries d
StoreInit ==
    \E d \in FormatDicts :
        /\ objs = NodeFormatFrom(d).objs
        /\ fieldDict = NodeFormatFrom(d).fieldDict
        /\ titleLine = NodeFormatFrom(d).titleLine
        /\ outputLines = NodeFormatFrom(d).outputLines
        /\ opts = NodeFormatFrom(d).opts
        /\ last = NfCall("load", d, "", TRUE)
        /\ fld = NewField(NameN, "Text", NoFieldData).obj
        /\ conv = Call("init", <<>>, Ret(<<>>))
        /\ nodes = <<>>

\* the optional keys storeFormat writes
storedOpts(o) ==
    [spacebetween |-> IF ~o.spaceBetween THEN <<FALSE>> ELSE <<>>,
     formathtml |-> IF o.formatHtml THEN <<TRUE>> ELSE <<>>,
     childtype |-> IF o.childType # <<>> THEN <<o.childType>> ELSE <<>>,
     icon |-> IF o.iconName # <<>> THEN <<o.iconName>> ELSE <<>>]

\* NodeFormat.storeFormat(): titleline, outputlines and the optional keys
storeFormat ==
    [titleline |-> getTitleLine, outputlines |-> getOutputLines,
     opts |-> storedOpts(opts)]

\* storeFormat() on the format loaded last; arg stays the dictionary loaded
StoreFormat ==
    /\ last.op \in {"load", "storeFormat"}
    /\ last' = NfCall("storeFormat", last.arg, "", storeFormat)
    /\ UNCHANGED <<objs, fieldDict, titleLine, outputLines, opts>>

StoreNext == StoreFormat /\ UNCHANGED <<fVars, nodes>>

SpecStore == StoreInit /\ [][StoreNext]_vars

----------------------------------------------------------------------------
(* Claims about persistence, under SpecStore *)

Normalized(text) == CollapseRuns(Strip(text))

\* the optional keys are omitted exactly when they hold their defaults, and
\* a load of the dump restores the options
OptsSymmetric(d, stored) ==
    /\ HasKey(stored.opts, "spacebetween") = ~opts.spaceBetween
    /\ HasKey(stored.opts, "formathtml") = opts.formatHtml
    /\ HasKey(stored.opts, "childtype") = (opts.childType # <<>>)
    /\ HasKey(stored.opts, "icon") = (opts.iconName # <<>>)
    /\ opts.spaceBetween = DictGet(d.opts, "spacebetween", TRUE)
    /\ opts.spaceBetween = DictGet(stored.opts, "spacebetween", TRUE)
    /\ opts.formatHtml = DictGet(d.opts, "formathtml", FALSE)
    /\ opts.formatHtml = DictGet(stored.opts, "formathtml", FALSE)
    /\ opts.childType = DictGet(d.opts, "childtype", <<>>)
    /\ opts.childType = DictGet(stored.opts, "childtype", <<>>)
    /\ opts.iconName = DictGet(d.opts, "icon", <<>>)
    /\ opts.iconName = DictGet(stored.opts, "icon", <<>>)

\* C11 as stated: NodeFormat(name, d).storeFormat() has the titleline of d
\* and as many output lines as d, in the same order, each whitespace
\* normalized, and the optional keys are omitted exactly at their defaults
\* and restored on read.
C11_LoadStoreSymmetric ==
    last.op = "storeFormat" =>
        LET d == last.arg
            stored == last.ret
        IN  /\ stored.titleline = Normalized(d.titleline)
            /\ Len(stored.outputlines) = Len(d.outputlines)
            /\ \A i \in 1..Len(d.outputlines) :
                   i <= Len(stored.outputlines)
                   /\ stored.outputlines[i] = Normalized(d.outputlines[i])
            /\ OptsSymmetric(d, stored)

\* what does hold: the title line and the optional keys are symmetric, and
\* the output lines come back as one line, their concatenation
C11_TitleAndOptsSymmetric ==
    last.op = "storeFormat" =>
        LET d == last.arg
            stored == last.ret
        IN  /\ stored.titleline = Normalized(d.titleline)
            /\ stored.outputlines = <<Normalized(Concat(d.outputlines))>>
            /\ OptsSymmetric(d, stored)

----------------------------------------------------------------------------
(* Field dump specification: a Field object, formatData() and the field     *)
(* constructed from the dictionary it returns                               *)

\* the optional keys of the field dictionaries a field is constructed from:
\* none, each with the value the constructor takes for a missing key, and
\* each with another value
ExtraDicts ==
    {NoExtra,
     [prefix |-> << <<>> >>, suffix |-> << <<>> >>, init |-> << <<>> >>,
      lines |-> <<defaultNumLines>>, sortkeynum |-> <<0>>,
      sortkeyfwd |-> <<TRUE>>],
     [prefix |-> << <<"p">> >>, suffix |-> << <<"s">> >>, init |-> << <<"x">> >>,
      lines |-> <<defaultNumLines + 1>>, sortkeynum |-> <<1>>,
      sortkeyfwd |-> <<FALSE>>]}

DumpTypes == TypeNames

\* field dictionaries with and without a format and an evalhtml key
DumpDatas ==
    {[FieldData(t, hasFormat, IF hasFormat THEN FmtXYZ ELSE <<>>,
                hasEvalHtml, hasEvalHtml) EXCEPT !.extra = x] :
        t \in DumpTypes, hasFormat \in BOOLEAN, hasEvalHtml \in BOOLEAN,
        x \in ExtraDicts}

DumpFormats == {<<>>, FmtXYZ}

\* formatData() and fieldClass(name, formatData()) of the same class
FFormatData ==
    LET d == formatData(fld)
        r == NewField(fld.name, fld.typeName, d)
    IN  /\ fld' = fld
        /\ conv' = [op |-> "formatData", arg |-> d, exc |-> r.exc, val |-> r.obj]

DumpNext ==
    \/ \E fd \in DumpDatas : FConstruct(fd) /\ UNCHANGED <<nfVars, restVars>>
    \/ \E t \in DumpTypes : FChangeType(t) /\ UNCHANGED <<nfVars, restVars>>
    \/ \E format \in DumpFormats : FSetFormat(format) /\ UNCHANGED <<nfVars, restVars>>
    \/ FFormatData /\ UNCHANGED <<nfVars, restVars>>

SpecDump == FInit /\ [][DumpNext]_vars

----------------------------------------------------------------------------
(* Claims about the field dump, under SpecDump *)

SameSettings(f, g) ==
    /\ f.format = g.format
    /\ f.prefix = g.prefix
    /\ f.suffix = g.suffix
    /\ f.initDefault = g.initDefault
    /\ f.numLines = g.numLines
    /\ f.sortKeyNum = g.sortKeyNum
    /\ f.sortKeyForward = g.sortKeyForward
    /\ f.evalHtml = g.evalHtml

\* C12 as stated: the field constructed from formatData() has the format,
\* prefix, suffix, initDefault, numLines, sortKeyNum, sortKeyForward and
\* evalHtml of the field that was dumped, for every variant.
C12_DumpReproducesField ==
    conv.op = "formatData" => conv.exc = "" /\ SameSettings(conv.val, fld)

\* the fields the dump does reproduce: those whose class constructs and
\* whose format is not empty where the class default is not
C12_DumpReproducesWhereFormatKept ==
    ( /\ conv.op = "formatData"
      /\ fld.typeName \notin ChoiceFamily
      /\ fld.format = <<>> => defaultFormat(fld.typeName) = <<>> )
        => conv.exc = "" /\ SameSettings(conv.val, fld)

----------------------------------------------------------------------------
(* Rendering: Field.formatOutput and outputText, NodeFormat.formatTitle and *)
(* formatOutput                                                             *)

\* _errorStr
ErrorStr == <<"#", "#", "#", "#", "#">>

\* _stripTagRe.sub('', text): each "<" up to the next ">" on its line removed
RECURSIVE StripTags(_)
StripTags(text) ==
    IF text = <<>> THEN <<>>
    ELSE IF Head(text) = "<"
            /\ \E i \in 2..Len(text) :
                   text[i] = ">" /\ \A j \in 2..(i - 1) : text[j] # "\n"
    THEN StripTags(Drop(text, CHOOSE i \in 2..Len(text) :
                                 /\ text[i] = ">"
                                 /\ \A j \in 2..(i - 1) : text[j] \notin {">", "\n"}))
    ELSE <<Head(text)>> \o StripTags(Tail(text))

removeMarkup(text) == Unescape(StripTags(text))

\* TextField.formatOutput
textFormatOutput(f, stored, titleMode, formatHtml) ==
    LET text == IF titleMode THEN removeMarkup(stored) ELSE stored
        prefix == IF titleMode
                  THEN (IF formatHtml THEN removeMarkup(f.prefix) ELSE f.prefix)
                  ELSE IF ~formatHtml THEN Escape(f.prefix) ELSE f.prefix
        suffix == IF titleMode
                  THEN (IF formatHtml THEN removeMarkup(f.suffix) ELSE f.suffix)
                  ELSE IF ~formatHtml THEN Escape(f.suffix) ELSE f.suffix
    IN  prefix \o text \o suffix

\* formatOutput of f's class
formatOutput(f, stored, titleMode, formatHtml) ==
    LET value ==
          CASE f.typeName = "OneLineText" -> BeforeFirst(stored, BrTag)
            [] f.typeName = "SpacedText" ->
                 IF stored # <<>>
                 THEN <<"<", "p", "r", "e", ">">> \o stored
                      \o <<"<", "/", "p", "r", "e", ">">>
                 ELSE stored
            [] f.typeName = "Number" ->
                 IF IsNumber(stored) THEN numStr(NumValue(stored))
                 ELSE ErrorStr
            [] f.typeName = "Boolean" ->
                 IF IsBoolean(stored)
                 THEN boolStr(stored = BoolTrue, f.format)
                 ELSE ErrorStr
            [] f.typeName = "Choice" ->
                 IF stored \notin f.choices THEN ErrorStr ELSE stored
            [] f.typeName = "Combination" ->
                 LET s == sortedSelections(f, stored)
                 IN  IF s.valid THEN Concat(s.result) ELSE ErrorStr
            [] f.typeName = "RegularExpression" ->
                 IF stored = <<>>
                    \/ ReMatchHere(f.format, Unescape(stored))
                 THEN stored ELSE ErrorStr
            [] OTHER -> stored
    IN  textFormatOutput(f, value, titleMode, formatHtml)

\* node.data.get(name, '')
dataGet(d, name) == IF name \in DOMAIN d THEN d[name] ELSE <<>>

\* outputText of f's class on a node with the data d: CombinationField asks
\* the node for nodeFormat(), which no TreeNode has, and a field with
\* useFileInfo for modelRef
outputText(f, d, titleMode, formatHtml) ==
    IF f.typeName = "Combination" \/ f.useFileInfo THEN Raise("AttributeError")
    ELSE IF dataGet(d, f.name) # <<>>
    THEN Ret(formatOutput(f, dataGet(d, f.name), titleMode, formatHtml))
    ELSE Ret(<<>>)

\* the parts of a template line rendered in order, up to the first that raises
RECURSIVE titleParts(_, _, _, _)
titleParts(line, os, d, formatHtml) ==
    IF line = <<>> THEN Ret(<<>>)
    ELSE LET r == IF IsFieldSeg(Head(line))
                  THEN outputText(os[Head(line).ref], d, TRUE, formatHtml)
                  ELSE Ret(Head(line).text)
             rest == titleParts(Tail(line), os, d, formatHtml)
         IN  IF r.exc # "" THEN r
             ELSE IF rest.exc # "" THEN rest
             ELSE Ret(r.val \o rest.val)

\* NodeFormat.formatTitle(node)
formatTitle(tl, os, d, formatHtml) ==
    LET line == titleParts(tl, os, d, formatHtml)
    IN  IF line.exc # "" THEN line
        ELSE Ret(BeforeFirst(Strip(line.val), <<"\n">>))

\* one line of NodeFormat.formatOutput: the text and the numbers of empty
\* and full fields; nodeformat.py does not import xml, so escaping a literal
\* part raises NameError
RECURSIVE outputLine(_, _, _, _, _)
outputLine(lineData, os, d, plainText, formatHtml) ==
    IF lineData = <<>>
    THEN [exc |-> "", line |-> <<>>, numEmptyFields |-> 0, numFullFields |-> 0]
    ELSE LET part == Head(lineData)
             r == IF IsFieldSeg(part)
                  THEN outputText(os[part.ref], d, plainText, formatHtml)
                  ELSE IF ~formatHtml /\ ~plainText THEN Raise("NameError")
                  ELSE IF formatHtml /\ plainText THEN Ret(removeMarkup(part.text))
                  ELSE Ret(part.text)
             rest == outputLine(Tail(lineData), os, d, plainText, formatHtml)
         IN  IF r.exc # ""
             THEN [exc |-> r.exc, line |-> <<>>,
                   numEmptyFields |-> 0, numFullFields |-> 0]
             ELSE IF rest.exc # "" THEN rest
             ELSE [exc |-> "", line |-> r.val \o rest.line,
                   numEmptyFields |-> rest.numEmptyFields +
                       (IF IsFieldSeg(part) /\ r.val = <<>> THEN 1 ELSE 0),
                   numFullFields |-> rest.numFullFields +
                       (IF IsFieldSeg(part) /\ r.val # <<>> THEN 1 ELSE 0)]

\* the tags _endTagRe accepts at the end of a line
EndTags ==
    {<<"<">> \o name \o fill \o <<">">> :
        name \in {<<"b", "r">>, <<"B", "R">>, <<"h", "r">>, <<"H", "R">>},
        fill \in {<<>>, <<" ">>, <<"/">>, <<" ", "/">>, <<"/", " ">>}}

\* _endTagRe.match(line).group(1), <<>> when there is no match
endTag(line) ==
    LET tags == {t \in EndTags :
                    /\ Len(t) <= Len(line)
                    /\ SubSeq(line, Len(line) - Len(t) + 1, Len(line)) = t
                    /\ \A i \in 1..Len(line) : line[i] # "\n"}
    IN  IF tags = {} THEN <<>> ELSE CHOOSE t \in tags : TRUE

\* NodeFormat.formatOutput(node, plainText, keepBlanks)
RECURSIVE nodeFormatOutput(_, _, _, _, _, _, _)
nodeFormatOutput(ol, os, d, plainText, keepBlanks, formatHtml, result) ==
    IF ol = <<>> THEN Ret(result)
    ELSE LET l == outputLine(Head(ol), os, d, plainText, formatHtml)
             tag == endTag(l.line)
             next ==
                IF keepBlanks \/ l.numFullFields > 0 \/ l.numEmptyFields = 0
                THEN Append(result, l.line)
                ELSE IF formatHtml /\ ~plainText /\ result # <<>> /\ tag # <<>>
                THEN [result EXCEPT ![Len(result)] = @ \o tag]
                ELSE result
         IN  IF l.exc # "" THEN Raise(l.exc)
             ELSE nodeFormatOutput(Tail(ol), os, d, plainText, keepBlanks,
                                   formatHtml, next)

----------------------------------------------------------------------------
(* Node specification: a NodeFormat, one TreeNode of it and rendering       *)

\* the types the field Tag is changed to
NodeTypes ==
    {"Text", "HtmlText", "OneLineText", "SpacedText", "Number", "Boolean",
     "Choice", "Combination", "RegularExpression"}

TplTag == Ph(NameT)

NodeTemplates == {TplNameTag, TplTag}

\* output line lists given to changeOutputLines
NodeOutputs ==
    { <<TplTag \o <<"<", "h", "r", ">">>, Ph(NameN) \o <<"<", "b", "r", ">">>,
        TplTag \o <<"<", "b", "r", " ", "/", ">">>>>,
      <<<<"x", "<", "b", ">", " ">> \o TplTag>> }

MarkedUp == <<"a", "<", "b", ">", "c">>

\* the data dictionaries a node is created with
NodeDatas ==
    {[k \in {NameN} |-> MarkedUp]}
    \cup {[k \in {NameN, NameT} |-> IF k = NameN THEN <<"a">> ELSE t] :
             t \in {<<"1">>, <<"0", "7">>, <<"z", "&", "z">>, BoolTrue, <<"1", "/", "2">>}}

\* the title strings given to setTitle
NodeTitles == {<<"a", " ", "1">>, <<"b", " ", "z", "z">>, <<"a", "c">>, <<"2">>}

\* the field Tag carries a prefix and a suffix with markup
TagData ==
    [NoFieldData EXCEPT !.extra =
        [NoExtra EXCEPT !.prefix = << <<"<", "i", ">">> >>,
                        !.suffix = << <<"&">> >>]]

\* NodeFormat(name, formatData) with the Text fields Name, Tag and Date and
\* either value of formathtml, and no node yet
NodeInit ==
    /\ objs = <<NewField(NameN, "Text", NoFieldData).obj,
                NewField(NameT, "Text", TagData).obj,
                NewField(NameD, "Text", NoFieldData).obj>>
    /\ fieldDict = <<<<NameN, 1>>, <<NameT, 2>>, <<NameD, 3>>>>
    /\ titleLine = updateLineParsing(<<TextSeg(<<>>)>>, << <<>> >>,
                                     objs, fieldDict).titleLine
    /\ outputLines = updateLineParsing(<<TextSeg(<<>>)>>, << <<>> >>,
                                       objs, fieldDict).outputLines
    /\ last = NfCall("init", <<>>, "", TRUE)
    /\ fld = NewField(NameN, "Text", NoFieldData).obj
    /\ conv = Call("init", <<>>, Ret(<<>>))
    /\ opts \in {DefaultOpts, [DefaultOpts EXCEPT !.formatHtml = TRUE]}
    /\ nodes = <<>>

\* NodeFormat.changeOutputLines(lines), keepBlanks False
ChangeOutputLines(lines) ==
    LET parsed == [i \in 1..Len(lines) |-> parseLine(lines[i], fieldDict)]
    IN  /\ outputLines' = SelectSeq(parsed, LAMBDA newLine : newLine # <<>>)
        /\ last' = NfCall("changeOutputLines", lines, "", TRUE)
        /\ UNCHANGED <<objs, fieldDict, titleLine>>

\* TreeNode(formatRef, {'data': d})
NewNode(d) ==
    /\ nodes' = <<d>>
    /\ last' = NfCall("TreeNode", <<>>, "", TRUE)
    /\ UNCHANGED <<objs, fieldDict, titleLine, outputLines>>

\* the record of a call that renders the node: the data it read
RenderCall(op, arg, r) ==
    [op |-> op, arg |-> arg, exc |-> r.exc, ret |-> r.val,
     before |-> nodes[1], data |-> nodes[1]]

\* field.outputText(node, titleMode, formatHtml) for the object id
OutputText(id, titleMode) ==
    /\ nodes # <<>>
    /\ last' = RenderCall("outputText", <<id, titleMode>>,
                          outputText(objs[id], nodes[1], titleMode, opts.formatHtml))
    /\ UNCHANGED <<objs, fieldDict, titleLine, outputLines, nodes>>

\* TreeNode.title()
FormatTitle ==
    /\ nodes # <<>>
    /\ last' = RenderCall("formatTitle", <<>>,
                          formatTitle(titleLine, objs, nodes[1], opts.formatHtml))
    /\ UNCHANGED <<objs, fieldDict, titleLine, outputLines, nodes>>

\* TreeNode.output(plainText, keepBlanks)
FormatOutput(plainText, keepBlanks) ==
    /\ nodes # <<>>
    /\ last' = RenderCall("formatOutput", <<plainText, keepBlanks>>,
                          nodeFormatOutput(outputLines, objs, nodes[1], plainText,
                                           keepBlanks, opts.formatHtml, <<>>))
    /\ UNCHANGED <<objs, fieldDict, titleLine, outputLines, nodes>>

\* a mutation: setTitle without the guard of the unchanged title
SetTitleNoGuard(tl, os, d, title, formatHtml) ==
    LET cur == formatTitle(tl, os, d, formatHtml)
    IN  IF cur.exc # "" THEN DataRaise(cur.exc, d)
        ELSE extractTitleData(tl, os, title, d)

\* the body of setTitle once title() has ended with the outcome cur
setTitleFrom(cur, tl, os, d, title) ==
    IF cur.exc # "" THEN DataRaise(cur.exc, d)
    ELSE IF title = cur.val THEN DataRet(FALSE, d)
    ELSE extractTitleData(tl, os, title, d)

\* TreeNode.setTitle(title) on a node with the data d: title() is called
\* first and what it raises leaves setTitle
setTitle(tl, os, d, title, formatHtml) ==
    setTitleFrom(formatTitle(tl, os, d, formatHtml), tl, os, d, title)

\* TreeNode.setTitle(title)
SetTitle(title) ==
    LET d == nodes[1]
        out == setTitle(titleLine, objs, d, title, opts.formatHtml)
    IN  /\ nodes # <<>>
        /\ nodes' = <<out.data>>
        /\ last' = [op |-> "setTitle", arg |-> title, exc |-> out.exc,
                    ret |-> out.ret, before |-> d, data |-> out.data]
        /\ UNCHANGED <<objs, fieldDict, titleLine, outputLines>>

NodeNext ==
    \/ \E t \in NodeTypes : ChangeType(2, t) /\ UNCHANGED <<fVars, restVars>>
    \/ \E text \in NodeTemplates : ChangeTitleLine(text) /\ UNCHANGED <<fVars, restVars>>
    \/ \E lines \in NodeOutputs : ChangeOutputLines(lines) /\ UNCHANGED <<fVars, restVars>>
    \/ \E d \in NodeDatas : NewNode(d) /\ UNCHANGED <<fVars, opts>>
    \/ \E id \in {1, 2}, titleMode \in BOOLEAN :
           OutputText(id, titleMode) /\ UNCHANGED <<fVars, opts>>
    \/ FormatTitle /\ UNCHANGED <<fVars, opts>>
    \/ \E plainText \in BOOLEAN, keepBlanks \in BOOLEAN :
           FormatOutput(plainText, keepBlanks) /\ UNCHANGED <<fVars, opts>>

SpecNode == NodeInit /\ [][NodeNext]_vars

\* the types the field Tag is given before setTitle: one that converts
\* the title text, one that rejects some, one whose title() raises
TitleTypes == {"Text", "SpacedText", "Number", "Combination"}

\* the data dictionaries of the node whose title is set
TitleDatas ==
    {[k \in {NameN} |-> MarkedUp],
     [k \in {NameN, NameT} |-> IF k = NameN THEN <<"a">> ELSE <<"1">>]}

\* Title specification: the node format, one node and setTitle
TitleNext ==
    \/ \E t \in TitleTypes : ChangeType(2, t) /\ UNCHANGED <<fVars, restVars>>
    \/ \E text \in NodeTemplates : ChangeTitleLine(text) /\ UNCHANGED <<fVars, restVars>>
    \/ \E d \in TitleDatas : NewNode(d) /\ UNCHANGED <<fVars, opts>>
    \/ \E title \in NodeTitles : SetTitle(title) /\ UNCHANGED <<fVars, opts>>

SpecTitle == NodeInit /\ [][TitleNext]_vars

----------------------------------------------------------------------------
(* Field mapping specification: the operations that change a NodeFormat's   *)
(* field mapping and its templates                                          *)

NameZ == <<"Z", "e", "d">>

\* the fieldtype values given to addField; "Bogus" names no field class
RefTypes == {"Text", "Number", "Choice", "Bogus"}

RefNames == {NameN, NameZ}

\* the name lists given to addFieldList
RefNameLists == {<<NameN>>, <<NameZ, NameT>>}

\* the name lists given to reorderFields
RefOrders == {<<NameD, NameT, NameN>>, <<NameN, NameT>>}

RefTemplates == {TplNameTag, Ph(NameD)}

RefOutputs == { <<Ph(NameN)>>, <<TplTag, Ph(NameD) \o <<"-">> \o Ph(NameZ)>> }

\* the lines given to addOutputLine, the second one blank
RefLines == {Ph(NameT), <<" ">>}

\* addFieldIfNew(name) for each name of nameList, in order
RECURSIVE addFieldIfNewAll(_, _, _)
addFieldIfNewAll(os, fd, nameList) ==
    IF nameList = <<>> THEN [exc |-> "", objs |-> os, fieldDict |-> fd]
    ELSE IF Lookup(fd, Head(nameList)) # 0
    THEN addFieldIfNewAll(os, fd, Tail(nameList))
    ELSE LET r == addField(os, fd, Head(nameList), "Text")
         IN  addFieldIfNewAll(r.objs, r.fieldDict, Tail(nameList))

\* NodeFormat.addFieldIfNew(name), fieldData None
AddFieldIfNew(name) ==
    LET r == addFieldIfNewAll(objs, fieldDict, <<name>>)
    IN  /\ Len(r.objs) <= MaxObjs
        /\ objs' = r.objs
        /\ fieldDict' = r.fieldDict
        /\ last' = NfCall("addFieldIfNew", <<name>>, r.exc, TRUE)
        /\ UNCHANGED <<titleLine, outputLines>>

\* NodeFormat.addFieldList(nameList, addFirstTitle, addToOutput)
AddFieldList(nameList, addFirstTitle, addToOutput) ==
    LET r == addFieldIfNewAll(objs, fieldDict, nameList)
        title == parseLine(Ph(nameList[1]), r.fieldDict)
        lines == [i \in 1..Len(nameList) |-> parseLine(Ph(nameList[i]), r.fieldDict)]
    IN  /\ Len(r.objs) <= MaxObjs
        /\ objs' = r.objs
        /\ fieldDict' = r.fieldDict
        /\ titleLine' = IF ~addFirstTitle THEN titleLine
                        ELSE IF title = <<>> THEN <<TextSeg(<<>>)>> ELSE title
        /\ outputLines' = IF ~addToOutput THEN outputLines
                          ELSE SelectSeq(lines, LAMBDA newLine : newLine # <<>>)
        /\ last' = NfCall("addFieldList", nameList, r.exc, TRUE)

\* NodeFormat.reorderFields(fieldNameList): KeyError for a name the mapping
\* does not hold, raised before self.fieldDict is assigned
ReorderFields(fieldNameList) ==
    LET known == \A i \in 1..Len(fieldNameList) :
                     Lookup(fieldDict, fieldNameList[i]) # 0
    IN  /\ fieldDict' = IF ~known THEN fieldDict
                        ELSE [i \in 1..Len(fieldNameList) |->
                                 <<fieldNameList[i],
                                   Lookup(fieldDict, fieldNameList[i])>>]
        /\ last' = NfCall("reorderFields", fieldNameList,
                          IF known THEN "" ELSE "KeyError", TRUE)
        /\ UNCHANGED <<objs, titleLine, outputLines>>

\* NodeFormat.addOutputLine(line)
AddOutputLine(line) ==
    LET newLine == parseLine(line, fieldDict)
    IN  /\ Len(outputLines) < MaxOutLines
        /\ outputLines' = IF newLine # <<>> THEN Append(outputLines, newLine)
                          ELSE outputLines
        /\ last' = NfCall("addOutputLine", line, "", TRUE)
        /\ UNCHANGED <<objs, fieldDict, titleLine>>

\* NodeFormat.updateLineParsing()
UpdateLineParsing ==
    LET r == updateLineParsing(titleLine, outputLines, objs, fieldDict)
    IN  /\ titleLine' = r.titleLine
        /\ outputLines' = r.outputLines
        /\ last' = NfCall("updateLineParsing", <<>>, "", TRUE)
        /\ UNCHANGED <<objs, fieldDict>>

RefsNext ==
    \/ \E name \in RefNames, t \in RefTypes :
           AddField(name, t) /\ UNCHANGED <<fVars, restVars>>
    \/ \E name \in RefNames : AddFieldIfNew(name) /\ UNCHANGED <<fVars, restVars>>
    \/ \E nameList \in RefNameLists, addFirstTitle \in BOOLEAN, addToOutput \in BOOLEAN :
           AddFieldList(nameList, addFirstTitle, addToOutput)
              /\ UNCHANGED <<fVars, restVars>>
    \/ \E fieldNameList \in RefOrders :
           ReorderFields(fieldNameList) /\ UNCHANGED <<fVars, restVars>>
    \/ \E text \in RefTemplates : ChangeTitleLine(text) /\ UNCHANGED <<fVars, restVars>>
    \/ \E lines \in RefOutputs : ChangeOutputLines(lines) /\ UNCHANGED <<fVars, restVars>>
    \/ \E line \in RefLines : AddOutputLine(line) /\ UNCHANGED <<fVars, restVars>>
    \/ UpdateLineParsing /\ UNCHANGED <<fVars, restVars>>

SpecRefs == Init /\ [][RefsNext]_vars

----------------------------------------------------------------------------
(* Claims about the field mapping, under SpecRefs *)

\* C15 as stated: addField with a field dictionary whose fieldtype is not
\* one of the nine known type names fails; it never returns having added a
\* field of a default type.
C15_UnknownTypeFails ==
    (last.op = "addField" /\ last.arg[2] \notin TypeNames) => last.exc # ""

\* the field segments of the title template and of the output templates
TemplateRefs ==
    {titleLine[i].ref : i \in {j \in 1..Len(titleLine) : IsFieldSeg(titleLine[j])}}
    \cup UNION {{outputLines[k][i].ref :
                    i \in {j \in 1..Len(outputLines[k]) : IsFieldSeg(outputLines[k][j])}} :
                k \in 1..Len(outputLines)}

\* C19 as stated: every field segment of a template is the Field object the
\* field mapping associates with the segment's name; no template keeps a
\* field that was replaced in or dropped from the mapping.
C19_TemplatesHoldLiveFields ==
    \A id \in TemplateRefs : Lookup(fieldDict, objs[id].name) = id

----------------------------------------------------------------------------
(* fieldformat.py: compareValue and sortKey *)

UpperCase == <<"A", "B", "C", "D", "E", "F", "G", "H", "I", "J", "K", "L", "M",
               "N", "O", "P", "Q", "R", "S", "T", "U", "V", "W", "X", "Y", "Z">>

LowerCase == <<"a", "b", "c", "d", "e", "f", "g", "h", "i", "j", "k", "l", "m",
               "n", "o", "p", "q", "r", "s", "t", "u", "v", "w", "x", "y", "z">>

\* str.lower()
Lower(text) ==
    [i \in 1..Len(text) |->
        IF text[i] \in Range(UpperCase)
        THEN LowerCase[CHOOSE k \in 1..Len(UpperCase) : UpperCase[k] = text[i]]
        ELSE text[i]]

\* the characters of the sort keys in code point order
CodePoints ==
    <<" ", "&", "/", "0", "1", "2", "3", "4", "5", "6", "7", "8", "9", ";", "<", ">">>
    \o UpperCase \o <<"_">> \o LowerCase

Ord(c) == CHOOSE k \in 1..Len(CodePoints) : CodePoints[k] = c

\* s < t for two str values: the first differing character decides, a
\* proper prefix is smaller
RECURSIVE StrLess(_, _)
StrLess(s, t) ==
    IF t = <<>> THEN FALSE
    ELSE IF s = <<>> THEN TRUE
    ELSE IF Head(s) # Head(t) THEN Ord(Head(s)) < Ord(Head(t))
    ELSE StrLess(Tail(s), Tail(t))

RankText == <<"8", "0", "_", "t", "e", "x", "t">>

RankNum == <<"2", "0", "_", "n", "u", "m">>

RankBool == <<"3", "0", "_", "b", "o", "o", "l">>

\* compareValue of f's class on a node with the data d: the number, 0 for
\* a text the number service rejects; the boolean, False for a text the
\* boolean service rejects; the lowercase text without markup
compareValue(f, d) ==
    LET stored == dataGet(d, f.name)
    IN  CASE f.typeName = "Number" ->
               IF IsNumber(stored) THEN NumValue(stored) ELSE 0
          [] f.typeName = "Boolean" -> stored = BoolTrue
          [] OTHER -> Lower(removeMarkup(stored))

\* a mutation: the Number rank after the text rank
SortKeyNumLast(f, d) ==
    CASE f.typeName = "Number" -> <<<<"9", "0", "_", "n", "u", "m">>, compareValue(f, d)>>
      [] f.typeName = "Boolean" -> <<RankBool, compareValue(f, d)>>
      [] OTHER -> <<RankText, compareValue(f, d)>>

\* sortKey of f's class: the type rank and the comparison value
sortKey(f, d) ==
    CASE f.typeName = "Number" -> <<RankNum, compareValue(f, d)>>
      [] f.typeName = "Boolean" -> <<RankBool, compareValue(f, d)>>
      [] OTHER -> <<RankText, compareValue(f, d)>>

\* k1 < k2 for two sort keys, as tuples compare: the ranks first, the
\* values (of one type when the ranks are equal) next
KeyLess(k1, k2) ==
    IF k1[1] # k2[1] THEN StrLess(k1[1], k2[1])
    ELSE CASE k1[1] = RankNum -> k1[2] < k2[2]
           [] k1[1] = RankBool -> ~k1[2] /\ k2[2]
           [] OTHER -> StrLess(k1[2], k2[2])

----------------------------------------------------------------------------
(* Sort specification: the sort keys of two fields on two nodes *)

\* the data dictionaries of the nodes that are compared
SortDatas ==
    {[k \in {NameN, NameT} |-> v] :
        v \in {<<"0", "7">>, <<"9">>, BoolTrue, <<"Z", "<", "b", ">", "a">>}}
    \cup {EmptyData}

\* field.sortKey(node1) and other.sortKey(node2) for the fields id1 and id2
SortKeys(id1, d1, id2, d2) ==
    /\ last' = [op |-> "sortKey", arg |-> <<id1, id2>>, exc |-> "",
                ret |-> <<sortKey(objs[id1], d1), sortKey(objs[id2], d2)>>,
                before |-> d1, data |-> d2]
    /\ UNCHANGED <<objs, fieldDict, titleLine, outputLines>>

SortNext ==
    \/ \E id \in 1..2, t \in TypeNames : ChangeType(id, t) /\ UNCHANGED <<fVars, restVars>>
    \/ \E d1 \in SortDatas, d2 \in SortDatas :
           SortKeys(1, d1, 2, d2) /\ UNCHANGED <<fVars, restVars>>

SpecSort == Init /\ [][SortNext]_vars

----------------------------------------------------------------------------
(* Claims about sort keys, under SpecSort *)

TextLike == TypeNames \ {"Number", "Boolean"}

\* C17: whatever the two nodes store, the sort key of a Number field is
\* strictly less than the sort key of a Boolean field, and both are
\* strictly less than the sort key of any text-like field; neither
\* comparison holds the other way round.
C17_RankOrder ==
    last.op = "sortKey" =>
        LET t1 == objs[last.arg[1]].typeName
            t2 == objs[last.arg[2]].typeName
            k1 == last.ret[1]
            k2 == last.ret[2]
            before(a, b) == KeyLess(a, b) /\ ~KeyLess(b, a)
        IN  /\ (t1 = "Number" /\ t2 = "Boolean") => before(k1, k2)
            /\ (t1 = "Boolean" /\ t2 = "Number") => before(k2, k1)
            /\ (t1 = "Number" /\ t2 \in TextLike) => before(k1, k2)
            /\ (t1 \in TextLike /\ t2 = "Number") => before(k2, k1)
            /\ (t1 = "Boolean" /\ t2 \in TextLike) => before(k1, k2)
            /\ (t1 \in TextLike /\ t2 = "Boolean") => before(k2, k1)

\* a Number field whose value is 9 sorted against a text field whose value
\* is "07"
C17_Witness ==
    /\ last.op = "sortKey"
    /\ objs[1].typeName = "Number"
    /\ objs[2].typeName \in TextLike
    /\ last.ret[1] = <<RankNum, 9>>
    /\ last.ret[2] = <<RankText, <<"0", "7">>>>

----------------------------------------------------------------------------
(* Claims about OneLineText, under SpecField *)

\* text holds the line-break marker "<br />"
HasBreak(text) ==
    \E i \in 1..Len(text) : IsPrefix(BrTag, Drop(text, i - 1))

\* C22 as stated: for a OneLineText field and every text, storedText and
\* storedTextFromTitle return the text truncated at its first "<br />", so
\* no stored value holds a line-break marker.
C22_StoresOneLine ==
    (fld.typeName = "OneLineText" /\ conv.op = "storedText") =>
        /\ conv.exc = ""
        /\ conv.val = BeforeFirst(conv.arg, BrTag)
        /\ ~HasBreak(conv.val)
        /\ ~HasBreak(storedTextFromTitle(fld, conv.arg).val)

----------------------------------------------------------------------------
(* Claims about changeType, under SpecDump *)

\* a step of changeType: the call is recorded and the class has changed
IsChangeTypeStep == conv'.op = "changeType" /\ fld'.typeName # fld.typeName

\* the name and the settings changeType does not touch are those of before
ChangeTypeFrame ==
    /\ conv'.exc = ""
    /\ fld'.name = fld.name
    /\ fld'.prefix = fld.prefix
    /\ fld'.suffix = fld.suffix
    /\ fld'.initDefault = fld.initDefault
    /\ fld'.numLines = fld.numLines
    /\ fld'.sortKeyNum = fld.sortKeyNum
    /\ fld'.sortKeyForward = fld.sortKeyForward
    /\ fld'.format = defaultFormat(fld'.typeName)

\* C21 as stated: changeType keeps the name and the other settings, sets
\* the format to the new variant's default, and resets evalHtml to the new
\* variant's default unless the variant fixes its html-eval policy (then
\* evalHtml is left as it was).
C21_ResetsUnlessFixed ==
    [][IsChangeTypeStep =>
          /\ ChangeTypeFrame
          /\ fld'.evalHtml = IF fixEvalHtmlSetting(fld'.typeName) THEN fld.evalHtml
                             ELSE evalHtmlDefault(fld'.typeName)]_vars

\* C21 amended: changeType keeps the name and the other settings, sets the
\* format to the new variant's default, sets evalHtml to the new variant's
\* default when the variant fixes its html-eval policy, and leaves evalHtml
\* as it was when the variant does not.
C21_ResetsWhenFixed ==
    [][IsChangeTypeStep =>
          /\ ChangeTypeFrame
          /\ fld'.evalHtml = IF fixEvalHtmlSetting(fld'.typeName)
                             THEN evalHtmlDefault(fld'.typeName)
                             ELSE fld.evalHtml]_vars

\* a field with a prefix, changed to a variant that does not fix its
\* policy, has kept an evalHtml that is not the variant's default
C21_Witness ==
    /\ conv.op = "changeType"
    /\ ~fixEvalHtmlSetting(fld.typeName)
    /\ fld.evalHtml # evalHtmlDefault(fld.typeName)
    /\ fld.format = defaultFormat(fld.typeName)
    /\ fld.prefix # <<>>

----------------------------------------------------------------------------
(* Claims about the choice fields, under SpecDump *)

\* the choices of f agree with its choiceList and its evalHtml
ChoicesConsistent(f) ==
    CASE f.typeName \in {"Choice", "Boolean"} ->
           /\ f.choiceList = splitText(f.format)
           /\ f.choices = IF f.evalHtml THEN Range(f.choiceList)
                          ELSE {Escape(c) : c \in Range(f.choiceList)}
      [] f.typeName = "Combination" ->
           /\ f.choiceList = splitText(IF f.evalHtml THEN f.format
                                       ELSE Escape(f.format))
           /\ f.choices = Range(f.choiceList)
      [] OTHER -> TRUE

\* C20 as stated: constructing a Choice, Combination or Boolean field from
\* a field dictionary completes, and after construction, setFormat and
\* changeType the field's choices are those of its choiceList under its
\* current evalHtml.
C20_ChoicesFollowEvalHtml ==
    /\ (conv.op = "construct" /\ conv.arg.fieldtype \in ChoiceFamily)
          => conv.exc = ""
    /\ conv.op \in {"construct", "setFormat", "changeType"}
          => ChoicesConsistent(fld)

\* what does hold: a choice field whose call returned is consistent
C20_ConsistentWhereReturned ==
    (conv.op \in {"construct", "setFormat", "changeType"} /\ conv.exc = "")
       => ChoicesConsistent(fld)

----------------------------------------------------------------------------
(* Claims about setTitle, under SpecTitle *)

\* C18: where the node has a title, setTitle(title) returns False and
\* leaves the node's data unchanged when title equals the current title();
\* otherwise its outcome, and the data it leaves, are those of
\* extractTitleData(title, data) of the node's format.
C18_SetTitleGuardsNoOp ==
    last.op = "setTitle" =>
        LET cur == formatTitle(titleLine, objs, last.before, opts.formatHtml)
            r == extractTitleData(titleLine, objs, last.arg, last.before)
        IN  cur.exc = "" =>
               IF last.arg = cur.val
               THEN /\ last.exc = ""
                    /\ last.ret = FALSE
                    /\ last.data = last.before
                    /\ nodes = <<last.before>>
               ELSE /\ last.exc = r.exc
                    /\ last.ret = r.ret
                    /\ last.data = r.data
                    /\ nodes = <<r.data>>

\* setTitle was called with the node's current title, which a match of
\* the title template would have accepted
C18_Witness ==
    /\ last.op = "setTitle"
    /\ last.arg # <<>>
    /\ formatTitle(titleLine, objs, last.before, opts.formatHtml) = Ret(last.arg)
    /\ extractTitleData(titleLine, objs, last.arg, last.before).ret = TRUE
    /\ last.ret = FALSE

----------------------------------------------------------------------------
(* Claims about setFormat, under SpecField *)

\* C14: a setFormat call on a RegularExpression field that raises (the
\* specifier does not compile; the format error is ValueError) leaves the
\* field's format and every other attribute as they were before the call.
C14_FailedSetFormatKeepsField ==
    [][(fld.typeName = "RegularExpression" /\ conv'.op = "setFormat"
           /\ conv'.exc # "")
          => (fld' = fld /\ conv'.exc = "ValueError"
                /\ ~ReCompiles(conv'.arg))]_vars

\* a RegularExpression field with the format "ab.*" after setFormat("*a")
\* has raised
C14_Witness ==
    /\ fld.typeName = "RegularExpression"
    /\ conv.op = "setFormat"
    /\ conv.arg = FmtBadRe
    /\ conv.exc = "ValueError"
    /\ fld.format = FmtRe

\* the regular expression matches a part of text that starts at position 0
MatchesPrefix(re, text) ==
    \E k \in 0..Len(text) : ReFullMatch(re, SubSeq(text, 1, k))

\* C16: a RegularExpression field accepts an editor text (storedText) or a
\* stored text (formatEditorText, which matches the text as the editor
\* shows it) exactly when the text is empty or the format matches it from
\* position 0, the whole text consumed or not; any other text raises
\* ValueError.
C16_PrefixMatchAccepted ==
    (fld.typeName = "RegularExpression"
        /\ conv.op \in {"storedText", "formatEditorText"})
       => LET text == IF conv.op = "formatEditorText" /\ ~fld.evalHtml
                      THEN Unescape(conv.arg) ELSE conv.arg
          IN  /\ conv.exc = "" <=> (text = <<>> \/ MatchesPrefix(fld.format, text))
              /\ conv.exc \in {"", "ValueError"}

\* with the format "ab.*", storedText("abXYZextra") has been accepted
C16_Witness ==
    /\ fld.typeName = "RegularExpression"
    /\ fld.format = FmtRe
    /\ conv.op = "storedText"
    /\ conv.arg = TxtAbExtra
    /\ conv.exc = ""

----------------------------------------------------------------------------
(* Claims about rendering, under SpecNode *)

\* the stored text does not conform to the variant of f
NonConforming(f, stored) ==
    CASE f.typeName = "Number" -> ~IsNumber(stored)
      [] f.typeName = "Boolean" -> ~IsBoolean(stored)
      [] f.typeName = "Choice" -> stored \notin f.choices
      [] f.typeName = "Combination" ->
             ~(Range(splitText(stored)) \subseteq f.choices)
      [] f.typeName = "RegularExpression" ->
             stored # <<>> /\ ~ReMatchHere(f.format, Unescape(stored))
      [] OTHER -> FALSE

\* prefix + the error marker + suffix, the prefix and suffix as the mode
\* renders them
MarkerOutput(f, titleMode, formatHtml) ==
    textFormatOutput([f EXCEPT !.typeName = "Text"], ErrorStr, titleMode, formatHtml)

\* C13 as stated: outputText, formatTitle and formatOutput return text for
\* every field variant and every stored text, and a stored text that does
\* not conform to the variant renders as prefix + "#####" + suffix.
C13_RenderingNeverRaises ==
    /\ last.op \in {"outputText", "formatTitle", "formatOutput"} => last.exc = ""
    /\ last.op = "outputText" =>
          LET f == objs[last.arg[1]]
              stored == dataGet(last.before, f.name)
          IN  (stored # <<>> /\ NonConforming(f, stored))
                 => last.ret = MarkerOutput(f, last.arg[2], opts.formatHtml)

\* what does hold of a field's formatOutput: it returns text for every
\* variant, the marker for a stored text that does not conform
C13_FormatOutputMarks ==
    \A id \in 1..Len(objs), stored \in {<<"1">>, <<"z", "&", "z">>, BoolTrue},
       titleMode \in BOOLEAN, formatHtml \in BOOLEAN :
        NonConforming(objs[id], stored)
           => formatOutput(objs[id], stored, titleMode, formatHtml)
                 = MarkerOutput(objs[id], titleMode, formatHtml)

----------------------------------------------------------------------------
(* Claims about the lines of formatOutput, under SpecNode                   *)

\* the rule of emission: keepBlanks, or a field segment of the line that
\* renders non-empty, or no field segment in the line
EmitsLine(lineData, d, plainText, keepBlanks) ==
    \/ keepBlanks
    \/ \E k \in 1..Len(lineData) :
           /\ IsFieldSeg(lineData[k])
           /\ outputText(objs[lineData[k].ref], d, plainText,
                         opts.formatHtml).val # <<>>
    \/ \A k \in 1..Len(lineData) : ~IsFieldSeg(lineData[k])

\* the text of the output line at position i as the last call rendered it
LineText(i) ==
    outputLine(outputLines[i], objs, last.before, last.arg[1],
               opts.formatHtml).line

\* the number of the lines before position i that the rule emits
EmittedBefore(i) ==
    Cardinality({j \in 1..(i - 1) :
                    EmitsLine(outputLines[j], last.before, last.arg[1],
                              last.arg[2])})

\* the returned list holds the lines the rule emits, in template order
ReturnsEmittedLines ==
    /\ Len(last.ret) = EmittedBefore(Len(outputLines) + 1)
    /\ \A i \in 1..Len(outputLines) :
           EmitsLine(outputLines[i], last.before, last.arg[1], last.arg[2])
              => IsPrefix(LineText(i), last.ret[EmittedBefore(i) + 1])

\* C24: formatOutput(node, plainText, keepBlanks) emits a line exactly when
\* keepBlanks is set, or a field segment of the line rendered non-empty, or
\* the line has no field segment; the emitted lines are in template order and
\* every other line is dropped
C24_EmitsByRule ==
    last.op = "formatOutput" => last.exc = "" /\ ReturnsEmittedLines

\* what does hold: a call of formatOutput that returns follows the rule
C24_EmitsWhereReturned ==
    last.op = "formatOutput" /\ last.exc = "" => ReturnsEmittedLines

\* a call that returned with a line dropped and a line emitted
C24_DropsALine ==
    /\ last.op = "formatOutput"
    /\ last.exc = ""
    /\ Len(last.ret) > 0
    /\ Len(last.ret) < Len(outputLines)

\* the output lines the last call dropped although they end in a tag
DroppedWithTag ==
    {i \in 1..Len(outputLines) :
        /\ ~EmitsLine(outputLines[i], last.before, last.arg[1], last.arg[2])
        /\ endTag(LineText(i)) # <<>>}

\* the tag of the dropped line i follows the text of the line emitted before
TagAppended(i) ==
    /\ EmittedBefore(i) > 0
    /\ Contains(last.ret[EmittedBefore(i)], endTag(LineText(i)))
    /\ \E j \in 1..(i - 1) :
           /\ EmitsLine(outputLines[j], last.before, last.arg[1], last.arg[2])
           /\ EmittedBefore(j) + 1 = EmittedBefore(i)
           /\ Contains(Drop(last.ret[EmittedBefore(i)], Len(LineText(j))),
                       endTag(LineText(i)))

\* C25: when formatOutput drops a line while formatHtml is true and plainText
\* false, a trailing <br> or <hr> tag of the dropped line is appended to the
\* previously emitted line and is not lost, at every position of the dropped
\* line, the first included
C25_DroppedTagKept ==
    /\ last.op = "formatOutput"
    /\ last.exc = ""
    /\ opts.formatHtml
    /\ ~last.arg[1]
    => \A i \in DroppedWithTag : TagAppended(i)

\* what does hold: the tag is appended when a line was emitted before
C25_TagAppendedAfterEmitted ==
    /\ last.op = "formatOutput"
    /\ last.exc = ""
    /\ opts.formatHtml
    /\ ~last.arg[1]
    => \A i \in DroppedWithTag : EmittedBefore(i) > 0 => TagAppended(i)

\* a call that dropped a line with a tag after an emitted line
C25_TagMoved ==
    /\ last.op = "formatOutput"
    /\ last.exc = ""
    /\ opts.formatHtml
    /\ ~last.arg[1]
    /\ \E i \in DroppedWithTag : EmittedBefore(i) > 0

----------------------------------------------------------------------------
(* Tree specification: TreeNode objects built from persisted records and    *)
(* linked by assignRefs                                                     *)

\* the number of node records of a file
MaxTreeNodes == 3

\* the uids of the records, by position in the file's tree order
UidNames == <<"u1", "u2", "u3", "u4", "u5">>

\* the child uid lists of the record k: up to two distinct later records
TreeChildLists(k) ==
    LET later == {UidNames[j] : j \in (k + 1)..MaxTreeNodes}
    IN  {<<>>} \cup {<<u>> : u \in later}
        \cup {p \in {<<u, v>> : u \in later, v \in later} : p[1] # p[2]}

\* the persisted record of position k: the root has data, the others none
TreeRecord(k, children) ==
    [format |-> IF k = 1 THEN "ROOT" ELSE "ITEM",
     uid |-> UidNames[k],
     data |-> IF k = 1 THEN [n \in {NameN} |-> <<"a">>] ELSE EmptyData,
     children |-> children]

RECURSIVE TreeFilesFrom(_)
TreeFilesFrom(k) ==
    IF k > MaxTreeNodes THEN {<<>>}
    ELSE {<<TreeRecord(k, c)>> \o rest :
             c \in TreeChildLists(k), rest \in TreeFilesFrom(k + 1)}

\* the files loaded: the records parents first, or children first
TreeFiles ==
    TreeFilesFrom(1)
    \cup {[i \in 1..Len(f) |-> f[Len(f) + 1 - i]] : f \in TreeFilesFrom(1)}

\* TreeNode.__init__(formatRef, fileData) for a persisted record; the format
\* is kept by its name, childList holds references (positions in nodes)
TreeNodeInit(formatRef, fileData) ==
    [formatRef |-> formatRef,
     uId |-> fileData.uid,
     data |-> fileData.data,
     tmpChildRefs |-> fileData.children,
     childList |-> <<>>]

\* the mapping of all nodes stored by uid, as a set of <<uid, reference>>
nodeDict(ns) == {<<ns[i].uId, i>> : i \in 1..Len(ns)}

nodeDictGet(nd, uid) == CHOOSE i \in {e[2] : e \in {x \in nd : x[1] = uid}} : TRUE

\* TreeNode.assignRefs(nodeDict) on the node n: a uid that nodeDict lacks
\* raises KeyError before anything is assigned
assignRefs(n, nd) ==
    IF \E j \in 1..Len(n.tmpChildRefs) :
           n.tmpChildRefs[j] \notin {e[1] : e \in nd}
    THEN [exc |-> "KeyError", node |-> n]
    ELSE [exc |-> "",
          node |-> [n EXCEPT
                       !.childList = [j \in 1..Len(n.tmpChildRefs) |->
                                         nodeDictGet(nd, n.tmpChildRefs[j])],
                       !.tmpChildRefs = <<>>]]

\* TreeNode.fileData() of the node n among the nodes ns
fileData(n, ns) ==
    [format |-> n.formatRef,
     uid |-> n.uId,
     data |-> n.data,
     children |-> [j \in 1..Len(n.childList) |-> ns[n.childList[j]].uId]]

\* the record of a call on the node at position i
TreeCall(op, i, exc, ret) ==
    [op |-> op, arg |-> i, exc |-> exc, ret |-> ret,
     before |-> IF i \in 1..Len(nodes) THEN nodes[i] ELSE EmptyData,
     data |-> EmptyData]

\* a file to load and no node yet
TreeInit ==
    /\ objs = <<NewField(NameN, "Text", NoFieldData).obj>>
    /\ fieldDict = <<<<NameN, 1>>>>
    /\ titleLine = updateLineParsing(<<TextSeg(<<>>)>>, << <<>> >>,
                                     objs, fieldDict).titleLine
    /\ outputLines = updateLineParsing(<<TextSeg(<<>>)>>, << <<>> >>,
                                       objs, fieldDict).outputLines
    /\ last = NfCall("init", <<>>, "", TRUE)
    /\ fld = NewField(NameN, "Text", NoFieldData).obj
    /\ conv \in TreeFiles
    /\ opts = DefaultOpts
    /\ nodes = <<>>

\* first phase: TreeNode(formatRef, fileData) for the next record of the file
BuildNode ==
    /\ Len(nodes) < Len(conv)
    /\ nodes' = Append(nodes, TreeNodeInit(conv[Len(nodes) + 1].format,
                                           conv[Len(nodes) + 1]))
    /\ last' = TreeCall("TreeNode", Len(nodes) + 1, "", TRUE)
    /\ UNCHANGED <<objs, fieldDict, titleLine, outputLines, fld, conv, opts>>

\* second phase: node.assignRefs(nodeDict) with the nodes built so far
AssignRefs(i) ==
    LET r == assignRefs(nodes[i], nodeDict(nodes))
    IN  /\ i \in 1..Len(nodes)
        /\ nodes' = [nodes EXCEPT ![i] = r.node]
        /\ last' = TreeCall("assignRefs", i, r.exc, TRUE)
        /\ UNCHANGED <<objs, fieldDict, titleLine, outputLines, fld, conv, opts>>

\* node.fileData()
FileData(i) ==
    /\ i \in 1..Len(nodes)
    /\ last' = TreeCall("fileData", i, "", fileData(nodes[i], nodes))
    /\ UNCHANGED <<objs, fieldDict, titleLine, outputLines, fld, conv, opts, nodes>>

TreeNext ==
    \/ BuildNode
    \/ \E i \in 1..MaxTreeNodes : AssignRefs(i)
    \/ \E i \in 1..MaxTreeNodes : FileData(i)

SpecTree == TreeInit /\ [][TreeNext]_vars

----------------------------------------------------------------------------
(* Claims about the linking of nodes, under SpecTree                        *)

\* the uids of the live nodes of the child list of the node at position i
ChildUids(i) ==
    [j \in 1..Len(nodes[i].childList) |-> nodes[nodes[i].childList[j]].uId]

\* the node at position i is linked as its record says
Linked(i) ==
    /\ ChildUids(i) = conv[i].children
    /\ nodes[i].tmpChildRefs = <<>>

\* once all nodes are built, a first assignRefs links the node as persisted
\* and fileData() returns the persisted record
LinkedAsPersisted ==
    /\ Len(nodes) = Len(conv)
    /\ last.op = "assignRefs"
    /\ last.before.childList = <<>>
    /\ last.before.tmpChildRefs = conv[last.arg].children
    => /\ last.exc = ""
       /\ Linked(last.arg)
       /\ fileData(nodes[last.arg], nodes) = conv[last.arg]

\* a step of assignRefs on a node that is linked
IsAssignAgain(i) ==
    /\ Len(nodes) = Len(conv)
    /\ i \in 1..Len(nodes)
    /\ Linked(i)
    /\ last'.op = "assignRefs"
    /\ last'.arg = i

\* C26: TreeNode construction is two-phase: once every node is built from its
\* persisted record and assignRefs has run with the uid-to-node mapping, the
\* child list of each node holds, in the persisted order, the live nodes with
\* the persisted child uids, its temporary uid list is empty and fileData()
\* returns the persisted record again; a second assignRefs does not change
\* the child list
C26_TwoPhaseLinksStay ==
    /\ []LinkedAsPersisted
    /\ [][\A i \in 1..MaxTreeNodes :
              IsAssignAgain(i) => nodes'[i].childList = nodes[i].childList]_vars

\* what does hold: the first assignRefs over the full node set links the
\* node and fileData() gives the record back
C26_FirstAssignLinks == LinkedAsPersisted

\* what does hold: a returned fileData() of a linked node is its record
C26_FileDataOfLinked ==
    /\ last.op = "fileData"
    /\ Len(nodes) = Len(conv)
    /\ Linked(last.arg)
    => last.ret = conv[last.arg]

\* a node with two children linked by assignRefs over the full node set
C26_LinkedTwo ==
    /\ Len(nodes) = Len(conv)
    /\ last.op = "assignRefs"
    /\ last.exc = ""
    /\ Len(nodes[last.arg].childList) = 2
    /\ Linked(last.arg)

====
